---- MODULE Spec2Model ----
(***************************************************************************)
(* Model of the remote-communication core of ShellTools                    *)
(* (src/src/shelltools/remote/remote.py): the host-side proxy Remote, the  *)
(* worker _RemoteProcess with its transmitter loop, receiver loop, reply   *)
(* callback tasks and supervisor, the two directions of the mp.Pipe, the   *)
(* serial line and a device on the other end of it.                        *)
(*                                                                         *)
(* A second part models the Tracker of src/tracker/tracker.py, the context  *)
(* manager that starts and stops the reporting of the device and collects  *)
(* its measures, with the client of its test.                              *)
(*                                                                         *)
(* Host and worker each run one asyncio event loop: a coroutine is only    *)
(* interleaved with the others of its loop at an await, so the code        *)
(* between two awaits is one action.                                       *)
(***************************************************************************)
EXTENDS Integers, Sequences, FiniteSets, TLC

(* ------------------------------ bounds -------------------------------- *)
\* number of new_request calls explored
MaxCalls == 3
\* unsolicited frames and raw chunks the device may put on the line
MaxDeviceExtra == 1
\* uses of the Tracker context, measures reported, calls of timeout
MaxChunks == 6           \* chunks a device puts on the line, receiver alone
MaxLines == 3            \* command lines the shell reads before EOF
MaxWrites == 3           \* calls of SynchronizedOStream.write
MaxUses == 2
MaxReports == 3
MaxTimeouts == 2

(* ------------------------- program constants -------------------------- *)
HeaderByte == 255
HEADER == <<HeaderByte, HeaderByte, HeaderByte, HeaderByte>>
\* keys of the packets the device sends: the host-reply key, an action
\* without response, an action whose response is not empty
ReplyKey == 0
PushKey == 1
EchoKey == 2
None == "None"

\* the request payloads explored: two one-byte strings
Payloads == {<<1>>, <<2>>}
\* what the stub device of the tests computes: twice the argument
Double(payload) == 2 * payload[1]
ReplyValues == {Double(p) : p \in Payloads}

VARIABLES
    \* ---- Remote (host process)
    next_request_uid,    \* Remote.__next_request_uid
    active_request_uid,  \* Remote.__active_request_uid
    exception,           \* Remote.__exception (None or the fault)
    tasks,               \* the __get_response tasks, in creation order
    completed,           \* uids of the finished tasks, in order of completion
    burst,               \* most calls that were pending at the same time
    \* ---- mp.Pipe: every message sent, and how many the other end has read
    pipe_to_remote,      \* payloads sent by new_request
    remote_recv,         \* number of them received by __handle_tx
    pipe_to_host,        \* messages sent by the worker
    host_recv,           \* number of them received by __get_response
    \* ---- _RemoteProcess (worker process)
    tx_pc,               \* __handle_tx: "poll", "wait", "failed", "cancelled"
    rx_pc,               \* __handle_rx: "poll", "failed", "cancelled"
    start_pc,            \* __start: "wait", "woken", "returned"; "done" once
                         \* aio.run has returned
    tx_exception,        \* the exception __handle_tx ended with
    rx_exception,        \* the exception __handle_rx ended with
    header_sentinel,     \* __handle_rx's header countdown
    dispatcher,          \* bytes of the packet the codec is loading
    loaded,              \* the codec holds a response nobody has read
    reply_tasks,         \* arguments of the scheduled __reply_callback tasks
    wakeups,             \* times a notify_all released __handle_tx
    witness,             \* last argument given to the PushKey callback
    warnings,            \* RuntimeWarnings emitted by check_unloaded_dispatcher
    dropped,             \* the codec has reported DROPPED_PACKET
    callback_exception,  \* the exception a __reply_callback task ended with
    ahead,               \* scheduled __reply_callback tasks the loop runs
                         \* before it resumes __start
    \* ---- serial line and device
    serial_out,          \* frames written by __handle_tx
    serial_in,           \* bytes waiting to be read by __handle_rx
    device,              \* "faithful" until the device misbehaves
    device_answered,     \* frames the device has answered
    device_extra,        \* unsolicited frames and chunks sent so far
    \* ---- trace of the receiver
    rx_log,              \* the bytes __handle_rx has read, in order
    fed,                 \* positions in rx_log of the bytes put to the codec
    \* ---- Tracker and its client
    tracker_pc,          \* where the coroutine using the Tracker stands
    measures,            \* __timestamps, __left_measures, __right_measures:
                         \* one triple for the three lists' entries
    queue,               \* Tracker.__queue
    stop_tracking_event, \* Tracker.__stop_tracking_event is set
    write_measure_task,  \* "none", "running", "done"
    measures_nb,         \* the local of timeout(): -1 stands for None
    data_frame,          \* the frame the last timeout() returned
    is_running,          \* MockClient.is_running
    control_log,         \* control commands the client was called with
    uses,                \* contexts left so far
    reports,             \* measures the device has reported
    timeouts,            \* calls of timeout() that have returned
    \* ---- Shell: the coroutine run, the thread of cmdloop, the event loop
    run_pc,              \* Shell.run: "idle", "polling", "exiting", "returned"
    thread_pc,           \* the thread: "unborn", "read", "create_task",
                         \* "wait", "dead"
    continue,            \* Shell.__continue
    ready,               \* the event loop's queue of callbacks, oldest first
    commands,            \* the coroutines given to create_task, in order
    running_tasks,       \* Shell.__running_tasks
    shell_x,             \* MockShell.x
    ostream,             \* what was logged to the output stream, in order
    done_event,          \* the threading.Event of the blocking command is set
    listening,           \* a KeyboardListener is started and not stopped
    cur,                 \* the command line the thread read last
    lines_read,          \* command lines read so far
    create_task_result,  \* what the last call of create_task returned
    \* ---- SynchronizedOStream and the threads that write to it
    lock,                \* SynchronizedOStream.__lock is held
    in_context,          \* SynchronizedOStream.__in_context
    in_with,             \* per user: it is inside "with stream:"
    write_pc,            \* per user, in write: "idle", "acquire", "write"
    write_call,          \* per user: its last call of write
    written,             \* what the wrapped stream was given, in order
    calls                \* calls of write so far

host_vars == <<next_request_uid, active_request_uid, exception, tasks,
               completed, burst, host_recv>>
pipe_vars == <<pipe_to_remote, remote_recv, pipe_to_host>>
worker_vars == <<tx_pc, rx_pc, start_pc, tx_exception, rx_exception,
                 header_sentinel, dispatcher, loaded, reply_tasks, wakeups,
                 witness, warnings, dropped, callback_exception, ahead>>
line_vars == <<serial_out, serial_in, device, device_answered, device_extra>>
remote_vars == <<host_vars, pipe_vars, worker_vars, line_vars>>
trace_vars == <<rx_log, fed>>
tracker_vars == <<tracker_pc, measures, queue, stop_tracking_event,
                  write_measure_task, measures_nb, data_frame, is_running,
                  control_log, uses, reports, timeouts>>
shell_vars == <<run_pc, thread_pc, continue, ready, commands, running_tasks,
                shell_x, ostream, done_event, listening, cur, lines_read,
                create_task_result>>
stream_vars == <<lock, in_context, in_with, write_pc, write_call, written,
                 calls>>
\* what the steps of one component leave alone
not_remote == <<tracker_vars, shell_vars, stream_vars>>
not_tracker == <<remote_vars, trace_vars, shell_vars, stream_vars>>
not_shell == <<remote_vars, trace_vars, tracker_vars, stream_vars>>
not_stream == <<remote_vars, trace_vars, tracker_vars, shell_vars>>
vars == <<remote_vars, trace_vars, tracker_vars, shell_vars, stream_vars>>

\* the users of the output stream: the thread of cmdloop and the event loop
Users == {"thread", "loop"}
\* a call of write that has not been made
NoCall == [msg |-> <<>>, ctx |-> FALSE, ctx_end |-> FALSE, acquired |-> FALSE,
           released |-> FALSE, raised |-> FALSE, done |-> FALSE]

(* ------------------------------ channel ------------------------------- *)
\* Connection.poll() on each end: a message is sent and not yet received
HostPoll == host_recv < Len(pipe_to_host)
RemotePoll == remote_recv < Len(pipe_to_remote)

\* a reply is sent as bytes, a fault as the exception object: the receiver
\* tells them apart with isinstance(result, Exception)
BytesMsg(v) == [kind |-> "bytes", val |-> v, exc |-> None]
ExceptionMsg(e) == [kind |-> "exception", val |-> 0, exc |-> e]
\* mutant: a message is taken for a fault unless its payload is the first
\* reply value
IsExceptionByPayload(msg) == msg.val # 2
IsException(msg) == msg.kind = "exception"

(* ------------------------------- Init --------------------------------- *)
Init ==
    /\ next_request_uid = 0
    /\ active_request_uid = 0
    /\ exception = None
    /\ tasks = <<>>
    /\ completed = <<>>
    /\ burst = 0
    /\ pipe_to_remote = <<>>
    /\ remote_recv = 0
    /\ pipe_to_host = <<>>
    /\ host_recv = 0
    /\ tx_pc = "poll"
    /\ rx_pc = "poll"
    /\ start_pc = "wait"
    /\ tx_exception = None
    /\ rx_exception = None
    /\ header_sentinel = Len(HEADER)
    /\ dispatcher = <<>>
    /\ loaded = FALSE
    /\ reply_tasks = <<>>
    /\ wakeups = 0
    /\ witness = 0
    /\ warnings = 0
    /\ dropped = FALSE
    /\ callback_exception = None
    /\ ahead = 0
    /\ serial_out = <<>>
    /\ serial_in = <<>>
    /\ device = "faithful"
    /\ device_answered = 0
    /\ device_extra = 0
    /\ rx_log = <<>>
    /\ fed = {}
    /\ tracker_pc = "outside"
    /\ measures = <<>>
    /\ queue = <<>>
    /\ stop_tracking_event = FALSE
    /\ write_measure_task = "none"
    /\ measures_nb = -1
    /\ data_frame = <<>>
    /\ is_running = FALSE
    /\ control_log = <<>>
    /\ uses = 0
    /\ reports = 0
    /\ timeouts = 0
    /\ run_pc = "idle"
    /\ thread_pc = "unborn"
    /\ continue = FALSE
    /\ ready = <<>>
    /\ commands = <<>>
    /\ running_tasks = {}
    /\ shell_x = 0
    /\ ostream = <<>>
    /\ done_event = FALSE
    /\ listening = FALSE
    /\ cur = None
    /\ lines_read = 0
    /\ create_task_result = None
    /\ lock = FALSE
    /\ in_context = FALSE
    /\ in_with = [u \in Users |-> FALSE]
    /\ write_pc = [u \in Users |-> "idle"]
    /\ write_call = [u \in Users |-> NoCall]
    /\ written = <<>>
    /\ calls = 0

(* ------------------------- Remote (host side) ------------------------- *)
Max(a, b) == IF a >= b THEN a ELSE b
\* number of __get_response tasks that have not finished
Pending == Cardinality({t \in 1..Len(tasks) : tasks[t].state = "pending"})

\* mutant: a poisoned proxy stops counting
NewRequestKeepsUid(payload) ==
    /\ Len(tasks) < MaxCalls
    /\ pipe_to_remote' = Append(pipe_to_remote, payload)
    /\ tasks' = Append(tasks, [uid |-> next_request_uid,
                               payload |-> payload,
                               state |-> "pending",
                               result |-> 0,
                               error |-> None])
    /\ next_request_uid' = IF exception # None THEN next_request_uid
                           ELSE next_request_uid + 1
    /\ burst' = Max(burst, Pending + 1)
    /\ UNCHANGED <<not_remote, trace_vars, active_request_uid, exception, completed,
                   host_recv, remote_recv, pipe_to_host, worker_vars,
                   line_vars>>

\* mutant: the waiter is created with the cursor instead of the counter
NewRequestCursorUid(payload) ==
    /\ Len(tasks) < MaxCalls
    /\ pipe_to_remote' = Append(pipe_to_remote, payload)
    /\ tasks' = Append(tasks, [uid |-> active_request_uid,
                               payload |-> payload,
                               state |-> "pending",
                               result |-> 0,
                               error |-> None])
    /\ next_request_uid' = next_request_uid + 1
    /\ burst' = Max(burst, Pending + 1)
    /\ UNCHANGED <<not_remote, trace_vars, active_request_uid, exception, completed,
                   host_recv, remote_recv, pipe_to_host, worker_vars,
                   line_vars>>

\* Remote.new_request: send the payload, create the waiter task with the
\* current uid, increment the uid.  No await: one step of the host loop.
NewRequest(payload) ==
    /\ Len(tasks) < MaxCalls
    /\ pipe_to_remote' = Append(pipe_to_remote, payload)
    /\ tasks' = Append(tasks, [uid |-> next_request_uid,
                               payload |-> payload,
                               state |-> "pending",
                               result |-> 0,
                               error |-> None])
    /\ next_request_uid' = next_request_uid + 1
    /\ burst' = Max(burst, Pending + 1)
    /\ UNCHANGED <<not_remote, trace_vars, active_request_uid, exception, completed,
                   host_recv, remote_recv, pipe_to_host, worker_vars,
                   line_vars>>

\* mutant: a waiter that does not check that it is the oldest pending one
ResponseReadyAnyUid(uid) ==
    \/ HostPoll
    \/ exception # None

\* mutant: a waiter that a poisoned proxy does not release
ResponseReadyNoPoison(uid) ==
    active_request_uid = uid /\ HostPoll

\* mutant: a waiter that is released when it is not behind the cursor
ResponseReadyNotBehind(uid) ==
    \/ active_request_uid <= uid /\ HostPoll
    \/ exception # None

\* the condition that ends the polling loop of __get_response
ResponseReady(uid) ==
    \/ active_request_uid = uid /\ HostPoll
    \/ exception # None

\* mutant: a pipe that hands out the newest message first
PipeRecvNewest == pipe_to_host[Len(pipe_to_host)]

\* Connection.recv() on the host end: the oldest message not yet received
PipeRecv == pipe_to_host[host_recv + 1]

\* __get_response on a poisoned proxy: raise the stored exception
RaiseStored(t) ==
    /\ tasks' = [tasks EXCEPT ![t].state = "raised", ![t].error = exception]
    /\ UNCHANGED <<exception, host_recv>>

\* mutant: the received exception is raised and not stored
ReceiveResultNoStore(t) ==
    LET result == PipeRecv IN
    /\ host_recv' = host_recv + 1
    /\ IF IsException(result)
       THEN tasks' = [tasks EXCEPT ![t].state = "raised",
                                   ![t].error = result.exc]
       ELSE tasks' = [tasks EXCEPT ![t].state = "returned",
                                   ![t].result = result.val]
    /\ UNCHANGED exception

\* mutant: the received payload resolves every pending call
ReceiveResultForAll(t) ==
    LET result == PipeRecv IN
    /\ host_recv' = host_recv + 1
    /\ IF IsException(result)
       THEN /\ exception' = result.exc
            /\ tasks' = [tasks EXCEPT ![t].state = "raised",
                                      ![t].error = result.exc]
       ELSE /\ tasks' = [i \in 1..Len(tasks) |->
                           IF tasks[i].state = "pending"
                           THEN [tasks[i] EXCEPT !.state = "returned",
                                                 !.result = result.val]
                           ELSE tasks[i]]
            /\ UNCHANGED exception

\* __get_response on a proxy that is not poisoned: receive a message; an
\* exception is stored and raised, anything else is returned
ReceiveResult(t) ==
    LET result == PipeRecv IN
    /\ host_recv' = host_recv + 1
    /\ IF IsException(result)
       THEN /\ exception' = result.exc
            /\ tasks' = [tasks EXCEPT ![t].state = "raised",
                                      ![t].error = result.exc]
       ELSE /\ tasks' = [tasks EXCEPT ![t].state = "returned",
                                      ![t].result = result.val]
            /\ UNCHANGED exception

\* mutant: a waiter that receives without looking at the stored exception
GetResponseNoCheck(t) ==
    /\ t \in 1..Len(tasks)
    /\ tasks[t].state = "pending"
    /\ ResponseReady(tasks[t].uid)
    /\ HostPoll
    /\ active_request_uid' = active_request_uid + 1
    /\ completed' = Append(completed, tasks[t].uid)
    /\ ReceiveResult(t)
    /\ UNCHANGED <<not_remote, trace_vars, next_request_uid, burst, pipe_vars,
                   worker_vars, line_vars>>

\* mutant: a waiter that is released again after it has finished
GetResponseAgain(t) ==
    /\ t \in 1..Len(tasks)
    /\ ResponseReady(tasks[t].uid)
    /\ active_request_uid' = active_request_uid + 1
    /\ completed' = Append(completed, tasks[t].uid)
    /\ IF exception # None THEN RaiseStored(t) ELSE ReceiveResult(t)
    /\ UNCHANGED <<not_remote, trace_vars, next_request_uid, burst, pipe_vars,
                   worker_vars, line_vars>>

\* mutant: a waiter released by the stored exception leaves the cursor alone
GetResponseNoAdvance(t) ==
    /\ t \in 1..Len(tasks)
    /\ tasks[t].state = "pending"
    /\ ResponseReady(tasks[t].uid)
    /\ active_request_uid' = IF exception # None THEN active_request_uid
                             ELSE active_request_uid + 1
    /\ completed' = Append(completed, tasks[t].uid)
    /\ IF exception # None THEN RaiseStored(t) ELSE ReceiveResult(t)
    /\ UNCHANGED <<not_remote, trace_vars, next_request_uid, burst, pipe_vars,
                   worker_vars, line_vars>>

\* Remote.__get_response from the end of its polling loop to its return or
\* raise (no await in between).  t is the task's index in tasks.
GetResponse(t) ==
    /\ t \in 1..Len(tasks)
    /\ tasks[t].state = "pending"
    /\ ResponseReady(tasks[t].uid)
    /\ active_request_uid' = active_request_uid + 1
    /\ completed' = Append(completed, tasks[t].uid)
    /\ IF exception # None THEN RaiseStored(t) ELSE ReceiveResult(t)
    /\ UNCHANGED <<not_remote, trace_vars, next_request_uid, burst, pipe_vars,
                   worker_vars, line_vars>>

(* ---------------------- _RemoteProcess (worker) ----------------------- *)
\* The asyncio.Condition's lock is only held between two awaits of one
\* coroutine (Condition.wait releases it while suspended), so it is free
\* whenever a coroutine of the worker loop acquires it: "async with" never
\* suspends here and the lock needs no variable.

\* mutant: a transmitter that does not wait for the reply
TxWriteNoWait ==
    /\ tx_pc = "poll"
    /\ RemotePoll
    /\ remote_recv' = remote_recv + 1
    /\ serial_out' = Append(serial_out, HEADER \o pipe_to_remote[remote_recv + 1])
    /\ UNCHANGED <<not_remote, ahead, trace_vars, host_vars, pipe_to_remote, pipe_to_host,
                   tx_pc, rx_pc, start_pc, tx_exception, rx_exception,
                   header_sentinel, dispatcher, reply_tasks, wakeups,
                   witness, warnings, dropped, callback_exception, loaded,
                   serial_in, device, device_answered, device_extra>>

\* mutant: a transmitter that writes the newest payload of the pipe
TxWriteNewest ==
    /\ tx_pc = "poll"
    /\ RemotePoll
    /\ remote_recv' = remote_recv + 1
    /\ serial_out' = Append(serial_out,
                            HEADER \o pipe_to_remote[Len(pipe_to_remote)])
    /\ tx_pc' = "wait"
    /\ UNCHANGED <<not_remote, ahead, trace_vars, host_vars, pipe_to_remote, pipe_to_host,
                   rx_pc, start_pc, tx_exception, rx_exception,
                   header_sentinel, dispatcher, reply_tasks, wakeups,
                   witness, warnings, dropped, callback_exception, loaded,
                   serial_in, device, device_answered, device_extra>>

\* mutant: a transmitter that writes the frame again before it suspends
TxWriteTwice ==
    /\ tx_pc = "poll"
    /\ RemotePoll
    /\ remote_recv' = remote_recv + 1
    /\ serial_out' = serial_out
                      \o <<HEADER \o pipe_to_remote[remote_recv + 1],
                           HEADER \o pipe_to_remote[remote_recv + 1]>>
    /\ tx_pc' = "wait"
    /\ UNCHANGED <<not_remote, ahead, trace_vars, host_vars, pipe_to_remote, pipe_to_host,
                   rx_pc, start_pc, tx_exception, rx_exception,
                   header_sentinel, dispatcher, reply_tasks, wakeups,
                   witness, warnings, dropped, callback_exception, loaded,
                   serial_in, device, device_answered, device_extra>>

\* mutant: a transmitter whose wait gives up and goes on to the next payload
TxWriteTimesOut ==
    /\ tx_pc \in {"poll", "wait"}
    /\ RemotePoll
    /\ remote_recv' = remote_recv + 1
    /\ serial_out' = Append(serial_out, HEADER \o pipe_to_remote[remote_recv + 1])
    /\ tx_pc' = "wait"
    /\ UNCHANGED <<not_remote, ahead, trace_vars, host_vars, pipe_to_remote, pipe_to_host,
                   rx_pc, start_pc, tx_exception, rx_exception,
                   header_sentinel, dispatcher, reply_tasks, wakeups,
                   witness, warnings, dropped, callback_exception, loaded,
                   serial_in, device, device_answered, device_extra>>

\* mutant: a transmitter that suspends between the write and the wait
TxWriteSuspends ==
    /\ tx_pc = "poll"
    /\ RemotePoll
    /\ remote_recv' = remote_recv + 1
    /\ serial_out' = Append(serial_out, HEADER \o pipe_to_remote[remote_recv + 1])
    /\ tx_pc' = "written"
    /\ UNCHANGED <<not_remote, ahead, trace_vars, host_vars, pipe_to_remote, pipe_to_host,
                   rx_pc, start_pc, tx_exception, rx_exception,
                   header_sentinel, dispatcher, reply_tasks, wakeups,
                   witness, warnings, dropped, callback_exception, loaded,
                   serial_in, device, device_answered, device_extra>>

\* mutant: a transmitter whose cancellation does not stop it
TxWriteAfterCancel ==
    /\ tx_pc \in {"poll", "cancelled"}
    /\ RemotePoll
    /\ remote_recv' = remote_recv + 1
    /\ serial_out' = Append(serial_out, HEADER \o pipe_to_remote[remote_recv + 1])
    /\ tx_pc' = "wait"
    /\ UNCHANGED <<not_remote, ahead, trace_vars, host_vars, pipe_to_remote, pipe_to_host,
                   rx_pc, start_pc, tx_exception, rx_exception,
                   header_sentinel, dispatcher, reply_tasks, wakeups,
                   witness, warnings, dropped, callback_exception, loaded,
                   serial_in, device, device_answered, device_extra>>

\* _RemoteProcess.__handle_tx, one iteration with a payload on the pipe:
\* receive it, write the frame, then suspend in Condition.wait.  (An
\* iteration without payload only sleeps.)
TxWrite ==
    /\ tx_pc = "poll"
    /\ RemotePoll
    /\ remote_recv' = remote_recv + 1
    /\ serial_out' = Append(serial_out, HEADER \o pipe_to_remote[remote_recv + 1])
    /\ tx_pc' = "wait"
    /\ UNCHANGED <<not_remote, ahead, trace_vars, host_vars, pipe_to_remote, pipe_to_host,
                   rx_pc, start_pc, tx_exception, rx_exception,
                   header_sentinel, dispatcher, reply_tasks, wakeups,
                   witness, warnings, dropped, callback_exception, loaded,
                   serial_in, device, device_answered, device_extra>>

\* the same iteration when Serial.write raises (the port is gone): the payload
\* is received, nothing is written and the task ends with the exception
TxWriteFails ==
    /\ tx_pc = "poll"
    /\ RemotePoll
    /\ remote_recv' = remote_recv + 1
    /\ tx_pc' = "failed"
    /\ tx_exception' = "SerialException"
    /\ UNCHANGED <<not_remote, ahead, trace_vars, host_vars, pipe_to_remote, pipe_to_host,
                   rx_pc, start_pc, rx_exception, header_sentinel,
                   dispatcher, reply_tasks, wakeups, witness, warnings,
                   dropped, callback_exception, loaded, line_vars>>

\* Dispatcher.put of the codec, one byte: a packet is a key byte and one
\* argument byte; a first byte that is no key drops the packet
Keys == {ReplyKey, PushKey, EchoKey}
DispatcherPut(packet, x) ==
    IF packet = <<>>
    THEN IF x \in Keys
         THEN [status |-> "LOADING_PACKET", packet |-> <<x>>]
         ELSE [status |-> "DROPPED_PACKET", packet |-> <<>>]
    ELSE [status |-> "RESOLVED_PACKET", packet |-> <<>>]

\* Dispatcher.is_loaded after a resolved packet: the action answered something
IsLoaded(key) == key = EchoKey

\* mutant: the header countdown is not reset after a resolved packet
CheckUnloadedDispatcherNoReset(s, key) ==
    [s EXCEPT !.warnings = IF IsLoaded(key) THEN @ + 1 ELSE @,
              !.loaded = FALSE]

\* mutant: the response is warned about and left in the codec
CheckUnloadedDispatcherKeeps(s, key) ==
    [s EXCEPT !.header_sentinel = Len(HEADER),
              !.warnings = IF IsLoaded(key) THEN @ + 1 ELSE @]

\* mutant: the header countdown is reset only when a response is discarded
CheckUnloadedDispatcherLoadedOnly(s, key) ==
    [s EXCEPT !.header_sentinel = IF IsLoaded(key) THEN Len(HEADER) ELSE @,
              !.warnings = IF IsLoaded(key) THEN @ + 1 ELSE @,
              !.loaded = FALSE]

\* check_unloaded_dispatcher, called for a resolved packet of the given key:
\* await a new header; warn about a response and discard it (write_to)
CheckUnloadedDispatcher(s, key) ==
    [s EXCEPT !.header_sentinel = Len(HEADER),
              !.warnings = IF IsLoaded(key) THEN @ + 1 ELSE @,
              !.loaded = FALSE]

\* mutant: a dropped packet is passed over like a byte of a loading packet
RxByteIgnoresDrop(s, x) ==
    IF s.header_sentinel = 0
    THEN LET put == DispatcherPut(s.dispatcher, x) IN
         IF put.status = "DROPPED_PACKET"
         THEN [s EXCEPT !.fed = @ \cup {Len(s.rx_log)},
                        !.dispatcher = put.packet, !.dropped = TRUE]
         ELSE IF put.status = "LOADING_PACKET"
         THEN [s EXCEPT !.fed = @ \cup {Len(s.rx_log)},
                        !.dispatcher = put.packet]
         ELSE LET key == s.dispatcher[1] IN
              CheckUnloadedDispatcher(
                  [s EXCEPT !.fed = @ \cup {Len(s.rx_log)},
                            !.dispatcher = put.packet,
                            !.loaded = IsLoaded(key),
                            !.reply_tasks = IF key = ReplyKey
                                            THEN Append(@, x) ELSE @,
                            !.witness = IF key = PushKey THEN x ELSE @],
                  key)
    ELSE [s EXCEPT !.header_sentinel =
                     IF x = HEADER[1] THEN @ - 1 ELSE Len(HEADER)]

\* mutant: a resolved packet of any key is taken for a reply to the host
RxByteAnyKeyReplies(s, x) ==
    IF s.header_sentinel = 0
    THEN LET put == DispatcherPut(s.dispatcher, x) IN
         IF put.status = "DROPPED_PACKET"
         THEN [s EXCEPT !.fed = @ \cup {Len(s.rx_log)},
                        !.dispatcher = put.packet, !.dropped = TRUE,
                        !.raised = TRUE]
         ELSE IF put.status = "LOADING_PACKET"
         THEN [s EXCEPT !.fed = @ \cup {Len(s.rx_log)},
                        !.dispatcher = put.packet]
         ELSE LET key == s.dispatcher[1] IN
              CheckUnloadedDispatcher(
                  [s EXCEPT !.fed = @ \cup {Len(s.rx_log)},
                            !.dispatcher = put.packet,
                            !.loaded = IsLoaded(key),
                            !.reply_tasks = Append(@, x),
                            !.witness = IF key = PushKey THEN x ELSE @],
                  key)
    ELSE [s EXCEPT !.header_sentinel =
                     IF x = HEADER[1] THEN @ - 1 ELSE Len(HEADER)]

\* mutant: a byte that is no header byte leaves the countdown where it is
RxByteNoResync(s, x) ==
    IF s.header_sentinel = 0
    THEN LET put == DispatcherPut(s.dispatcher, x) IN
         IF put.status = "DROPPED_PACKET"
         THEN [s EXCEPT !.fed = @ \cup {Len(s.rx_log)},
                        !.dispatcher = put.packet, !.dropped = TRUE,
                        !.raised = TRUE]
         ELSE IF put.status = "LOADING_PACKET"
         THEN [s EXCEPT !.fed = @ \cup {Len(s.rx_log)},
                        !.dispatcher = put.packet]
         ELSE LET key == s.dispatcher[1] IN
              CheckUnloadedDispatcher(
                  [s EXCEPT !.fed = @ \cup {Len(s.rx_log)},
                            !.dispatcher = put.packet,
                            !.loaded = IsLoaded(key),
                            !.reply_tasks = IF key = ReplyKey
                                            THEN Append(@, x) ELSE @,
                            !.witness = IF key = PushKey THEN x ELSE @],
                  key)
    ELSE [s EXCEPT !.header_sentinel = IF x = HEADER[1] THEN @ - 1 ELSE @]

\* the body of the inner loop of __handle_rx for the byte x just read;
\* s holds the receiver's local state and what the callbacks touch
RxByte(s, x) ==
    IF s.header_sentinel = 0
    THEN LET put == DispatcherPut(s.dispatcher, x) IN
         IF put.status = "DROPPED_PACKET"
         THEN \* raise_corrupted_packet
              [s EXCEPT !.fed = @ \cup {Len(s.rx_log)},
                        !.dispatcher = put.packet, !.dropped = TRUE,
                        !.raised = TRUE]
         ELSE IF put.status = "LOADING_PACKET"
         THEN [s EXCEPT !.fed = @ \cup {Len(s.rx_log)},
                        !.dispatcher = put.packet]
         ELSE \* the packet resolved: the codec calls the key's callback, then
              \* Match calls check_unloaded_dispatcher
              LET key == s.dispatcher[1] IN
              CheckUnloadedDispatcher(
                  [s EXCEPT !.fed = @ \cup {Len(s.rx_log)},
                            !.dispatcher = put.packet,
                            !.loaded = IsLoaded(key),
                            !.reply_tasks = IF key = ReplyKey
                                            THEN Append(@, x) ELSE @,
                            !.witness = IF key = PushKey THEN x ELSE @],
                  key)
    ELSE [s EXCEPT !.header_sentinel =
                     IF x = HEADER[1] THEN @ - 1 ELSE Len(HEADER)]

\* while self.__serial.in_waiting > 0: read a byte and handle it, until the
\* buffer is empty or a byte raised
RECURSIVE RxLoop(_, _)
RxLoop(s, bytes) ==
    IF bytes = <<>> \/ s.raised
    THEN [s EXCEPT !.unread = bytes]
    ELSE RxLoop(RxByte([s EXCEPT !.rx_log = Append(@, Head(bytes))],
                       Head(bytes)),
                Tail(bytes))

\* _RemoteProcess.__handle_rx, one iteration with bytes waiting
RxDrain ==
    /\ rx_pc = "poll"
    /\ serial_in # <<>>
    /\ LET s == RxLoop([header_sentinel |-> header_sentinel,
                        dispatcher |-> dispatcher,
                        loaded |-> loaded,
                        reply_tasks |-> reply_tasks,
                        witness |-> witness,
                        warnings |-> warnings,
                        dropped |-> dropped,
                        rx_log |-> rx_log,
                        fed |-> fed,
                        raised |-> FALSE,
                        unread |-> <<>>], serial_in) IN
       /\ header_sentinel' = s.header_sentinel
       /\ rx_log' = s.rx_log
       /\ fed' = s.fed
       /\ dispatcher' = s.dispatcher
       /\ loaded' = s.loaded
       /\ reply_tasks' = s.reply_tasks
       /\ witness' = s.witness
       /\ warnings' = s.warnings
       /\ dropped' = s.dropped
       /\ serial_in' = s.unread
       /\ rx_pc' = IF s.raised THEN "failed" ELSE "poll"
       /\ rx_exception' = IF s.raised THEN "RuntimeError" ELSE rx_exception
    /\ UNCHANGED <<not_remote, ahead, host_vars, pipe_vars, tx_pc, start_pc,
                   tx_exception, wakeups, callback_exception, serial_out,
                   device, device_answered, device_extra>>

\* mutant: a reply callback that sends the reply and notifies nobody
ReplyCallbackNoNotify ==
    /\ start_pc # "done"
    /\ reply_tasks # <<>>
    /\ pipe_to_host' = Append(pipe_to_host, BytesMsg(Head(reply_tasks)))
    /\ reply_tasks' = Tail(reply_tasks)
    /\ ahead' = IF ahead > 0 THEN ahead - 1 ELSE 0
    /\ UNCHANGED <<not_remote, trace_vars, host_vars, pipe_to_remote, remote_recv,
                   tx_pc, rx_pc, start_pc, tx_exception, rx_exception,
                   header_sentinel, dispatcher, loaded, wakeups, witness,
                   warnings, dropped, callback_exception, line_vars>>

\* mutant: a reply callback that notifies before it has sent the reply
ReplyCallbackNotifiesFirst ==
    /\ start_pc # "done"
    /\ reply_tasks # <<>>
    /\ tx_pc = "wait"
    /\ tx_pc' = "poll"
    /\ wakeups' = wakeups + 1
    /\ UNCHANGED <<not_remote, trace_vars, host_vars, pipe_vars, rx_pc,
                   start_pc, tx_exception, rx_exception, header_sentinel,
                   dispatcher, loaded, reply_tasks, witness, warnings,
                   dropped, callback_exception, ahead, line_vars>>

\* _RemoteProcess.__reply_callback, the oldest scheduled task: send the reply
\* to the host, then notify_all, which releases __handle_tx if it is waiting.
\* The task was created by the codec's callback: __start does not cancel it,
\* and the loop runs it as long as asyncio.run has not returned.
ReplyCallback ==
    /\ start_pc # "done"
    /\ reply_tasks # <<>>
    /\ pipe_to_host' = Append(pipe_to_host, BytesMsg(Head(reply_tasks)))
    /\ reply_tasks' = Tail(reply_tasks)
    /\ ahead' = IF ahead > 0 THEN ahead - 1 ELSE 0
    /\ IF tx_pc = "wait"
       THEN tx_pc' = "poll" /\ wakeups' = wakeups + 1
       ELSE UNCHANGED <<tx_pc, wakeups>>
    /\ UNCHANGED <<not_remote, trace_vars, host_vars, pipe_to_remote, remote_recv,
                   rx_pc, start_pc, tx_exception, rx_exception,
                   header_sentinel, dispatcher, witness, warnings, dropped,
                   callback_exception, loaded, line_vars>>

\* A __reply_callback task in which pipe.send or bytes raises: the task ends
\* with the exception before notify_all.  The task was created by the
\* codec's callback and is not among the tasks __start waits for: nothing is
\* sent and __handle_tx is not released.
ReplyCallbackFails ==
    /\ start_pc # "done"
    /\ reply_tasks # <<>>
    /\ reply_tasks' = Tail(reply_tasks)
    /\ ahead' = IF ahead > 0 THEN ahead - 1 ELSE 0
    /\ callback_exception' = "Exception"
    /\ UNCHANGED <<not_remote, trace_vars, host_vars, pipe_vars, tx_pc, rx_pc,
                   start_pc, tx_exception, rx_exception, header_sentinel,
                   dispatcher, loaded, wakeups, witness, warnings, dropped,
                   line_vars>>

\* aio.wait(return_when=FIRST_EXCEPTION) in __start: the done callback of the
\* loop that failed sets the waiter's result, which puts the wake-up of
\* __start at the end of the loop's queue, behind the __reply_callback tasks
\* scheduled so far and ahead of those scheduled later
FirstException ==
    /\ start_pc = "wait"
    /\ tx_pc = "failed" \/ rx_pc = "failed"
    /\ start_pc' = "woken"
    /\ ahead' = Len(reply_tasks)
    /\ UNCHANGED <<not_remote, trace_vars, host_vars, pipe_vars, tx_pc, rx_pc,
                   tx_exception, rx_exception, header_sentinel, dispatcher,
                   reply_tasks, wakeups, witness, warnings, dropped,
                   callback_exception, loaded, line_vars>>

\* the exceptions of the tasks aio.wait reports done, in the order the loop
\* over the set "done" may take them
DoneExceptions ==
    IF tx_pc = "failed" /\ rx_pc = "failed"
    THEN {<<tx_exception, rx_exception>>, <<rx_exception, tx_exception>>}
    ELSE IF tx_pc = "failed" THEN {<<tx_exception>>} ELSE {<<rx_exception>>}

RECURSIVE SendAll(_, _)
SendAll(pipe, excs) ==
    IF excs = <<>> THEN pipe
    ELSE SendAll(Append(pipe, ExceptionMsg(Head(excs))), Tail(excs))

\* mutant: a supervisor that leaves the other loop running
SuperviseNoCancel ==
    /\ start_pc = "woken"
    /\ ahead = 0
    /\ \E excs \in DoneExceptions :
         pipe_to_host' = SendAll(pipe_to_host, excs)
    /\ start_pc' = "returned"
    /\ UNCHANGED <<not_remote, trace_vars, host_vars, pipe_to_remote, remote_recv,
                   tx_pc, rx_pc, tx_exception, rx_exception, header_sentinel,
                   dispatcher, reply_tasks, wakeups, witness, warnings,
                   dropped, callback_exception, loaded, ahead, line_vars>>

\* _RemoteProcess.__start once it is resumed after aio.wait: send the
\* exception of every task that is done by then, cancel the others and
\* return
Supervise ==
    /\ start_pc = "woken"
    /\ ahead = 0
    /\ \E excs \in DoneExceptions :
         pipe_to_host' = SendAll(pipe_to_host, excs)
    /\ tx_pc' = IF tx_pc = "failed" THEN "failed" ELSE "cancelled"
    /\ rx_pc' = IF rx_pc = "failed" THEN "failed" ELSE "cancelled"
    /\ start_pc' = "returned"
    /\ UNCHANGED <<not_remote, trace_vars, host_vars, pipe_to_remote, remote_recv,
                   tx_exception, rx_exception, header_sentinel, dispatcher,
                   reply_tasks, wakeups, witness, warnings, dropped,
                   callback_exception, loaded, ahead, line_vars>>

\* _RemoteProcess.__call__: aio.run returns once __start has returned and
\* the loop has run what was in its queue, the __reply_callback tasks
\* scheduled before __start was resumed among it; the process ends
CallReturns ==
    /\ start_pc = "returned"
    /\ reply_tasks = <<>>
    /\ start_pc' = "done"
    /\ UNCHANGED <<not_remote, trace_vars, host_vars, pipe_vars, tx_pc, rx_pc,
                   tx_exception, rx_exception, header_sentinel, dispatcher,
                   reply_tasks, wakeups, witness, warnings, dropped,
                   callback_exception, loaded, ahead, line_vars>>

(* --------------------------- serial device ---------------------------- *)
FramePayload(frame) == SubSeq(frame, Len(HEADER) + 1, Len(frame))

\* the device answers the oldest frame it has not answered with one reply
\* packet.  The stub of the tests doubles the argument; a device that answers
\* another value is no longer faithful.
DeviceAnswer(v) ==
    /\ device_answered < Len(serial_out)
    /\ serial_in' = serial_in \o HEADER \o <<ReplyKey, v>>
    /\ device_answered' = device_answered + 1
    /\ device' = IF v = Double(FramePayload(serial_out[device_answered + 1]))
                 THEN device ELSE "adversarial"
    /\ UNCHANGED <<not_remote, trace_vars, host_vars, pipe_vars, worker_vars,
                   serial_out, device_extra>>

\* the device sends a framed packet of its own for another key
PushArgs == {HeaderByte}
DevicePush(key, arg) ==
    /\ device_extra < MaxDeviceExtra
    /\ serial_in' = serial_in \o HEADER \o <<key, arg>>
    /\ device_extra' = device_extra + 1
    /\ UNCHANGED <<not_remote, trace_vars, host_vars, pipe_vars, worker_vars,
                   serial_out, device, device_answered>>

\* a misbehaving device puts bytes on the line that answer no frame: a
\* header followed by a byte that is no key, a reply frame nobody asked for
Chunks ==
    {HEADER \o <<HeaderByte>>}
    \cup {HEADER \o <<ReplyKey, v>> : v \in ReplyValues}
DeviceChunk(chunk) ==
    /\ device_extra < MaxDeviceExtra
    /\ serial_in' = serial_in \o chunk
    /\ device_extra' = device_extra + 1
    /\ device' = "adversarial"
    /\ UNCHANGED <<not_remote, trace_vars, host_vars, pipe_vars, worker_vars,
                   serial_out, device_answered>>

\* a line that carries anything: the device puts a header, or a single byte
\* (a header byte, a key, the argument of a packet), whatever came before
ByteChunks == {HEADER, <<HeaderByte>>, <<ReplyKey>>, <<EchoKey>>}
DeviceBytes(chunk) ==
    /\ device_extra < MaxChunks
    /\ serial_in' = serial_in \o chunk
    /\ device_extra' = device_extra + 1
    /\ device' = "adversarial"
    /\ UNCHANGED <<not_remote, trace_vars, host_vars, pipe_vars, worker_vars,
                   serial_out, device_answered>>

(* ------------------------------ Tracker ------------------------------- *)
\* the measures the device may report: <<timestamp, left, right>>, two of
\* them with the same timestamp
Measures == {<<0, 2, 0>>, <<1, 1, 1>>, <<1, 0, 2>>, <<2, 2, 2>>}
Timestamp(m) == m[1]

\* MockClient.new_request for a control payload: START requires the device
\* not to run and starts it, STOP requires it to run and stops it
ClientCall(command) ==
    /\ control_log' = Append(control_log, command)
    /\ is_running' = (command = "START")

\* mutant: a context that issues START again when it is left
AexitStarts ==
    /\ tracker_pc = "inside"
    /\ ClientCall("START")
    /\ tracker_pc' = "stopping"
    /\ UNCHANGED <<not_tracker, measures, queue, stop_tracking_event,
                   write_measure_task, measures_nb, data_frame, uses,
                   reports, timeouts>>

\* Tracker.__aenter__ up to the await of the START call: empty the lists,
\* clear the event, create the __write_measure task, issue START
Aenter ==
    /\ tracker_pc = "outside"
    /\ uses < MaxUses
    /\ measures' = <<>>
    /\ stop_tracking_event' = FALSE
    /\ write_measure_task' = "running"
    /\ ClientCall("START")
    /\ tracker_pc' = "starting"
    /\ UNCHANGED <<not_tracker, queue, measures_nb, data_frame, uses,
                   reports, timeouts>>

\* the START call returns and __aenter__ with it: the body of the context
\* runs
StartReturns ==
    /\ tracker_pc = "starting"
    /\ tracker_pc' = "inside"
    /\ UNCHANGED <<not_tracker, measures, queue, stop_tracking_event,
                   write_measure_task, measures_nb, data_frame, is_running,
                   control_log, uses, reports, timeouts>>

\* Tracker.__aexit__ up to the await of the STOP call
Aexit ==
    /\ tracker_pc = "inside"
    /\ ClientCall("STOP")
    /\ tracker_pc' = "stopping"
    /\ UNCHANGED <<not_tracker, measures, queue, stop_tracking_event,
                   write_measure_task, measures_nb, data_frame, uses,
                   reports, timeouts>>

\* the STOP call returns: set the event, await the __write_measure task
StopReturns ==
    /\ tracker_pc = "stopping"
    /\ stop_tracking_event' = TRUE
    /\ tracker_pc' = "joining"
    /\ UNCHANGED <<not_tracker, measures, queue, write_measure_task,
                   measures_nb, data_frame, is_running, control_log, uses,
                   reports, timeouts>>

\* the __write_measure task is done: __aexit__ returns
Joined ==
    /\ tracker_pc = "joining"
    /\ write_measure_task = "done"
    /\ tracker_pc' = "outside"
    /\ uses' = uses + 1
    /\ UNCHANGED <<not_tracker, measures, queue, stop_tracking_event,
                   write_measure_task, measures_nb, data_frame, is_running,
                   control_log, reports, timeouts>>

\* Tracker.__append_to_queue, the callback of the report key, for a measure
\* of a device that has been started: queued unless the event is set
AppendToQueue(m) ==
    /\ control_log # <<>>
    /\ reports < MaxReports
    /\ reports' = reports + 1
    /\ queue' = IF stop_tracking_event THEN queue ELSE Append(queue, m)
    /\ UNCHANGED <<not_tracker, tracker_pc, measures, stop_tracking_event,
                   write_measure_task, measures_nb, data_frame, is_running,
                   control_log, uses, timeouts>>

\* Tracker.__write_measure, one iteration with a queue that is not empty:
\* move every queued measure to the lists (no await in the inner loop)
WriteMeasure ==
    /\ write_measure_task = "running"
    /\ ~stop_tracking_event
    /\ queue # <<>>
    /\ measures' = measures \o queue
    /\ queue' = <<>>
    /\ UNCHANGED <<not_tracker, tracker_pc, stop_tracking_event,
                   write_measure_task, measures_nb, data_frame, is_running,
                   control_log, uses, reports, timeouts>>

\* Tracker.__write_measure finds the event set after a sleep and returns
WriteMeasureReturns ==
    /\ write_measure_task = "running"
    /\ stop_tracking_event
    /\ write_measure_task' = "done"
    /\ UNCHANGED <<not_tracker, tracker_pc, measures, queue,
                   stop_tracking_event, measures_nb, data_frame, is_running,
                   control_log, uses, reports, timeouts>>

\* DataFrame.sort_values("timestamp"): the rows in an order of increasing
\* timestamp; the default sort is not stable, rows with the same timestamp
\* come in either order
SortValues(rows) ==
    {[i \in 1..Len(rows) |-> rows[p[i]]] : p \in
        {q \in Permutations(1..Len(rows)) :
            \A i, j \in 1..Len(rows) :
               i < j => Timestamp(rows[q[i]]) <= Timestamp(rows[q[j]])}}

\* mutant: timeout() that returns at its first check after a sleep
TimeoutWakeReturns ==
    /\ tracker_pc = "sleeping"
    /\ data_frame' \in SortValues(measures)
    /\ timeouts' = timeouts + 1
    /\ tracker_pc' = "inside"
    /\ UNCHANGED <<not_tracker, measures, measures_nb, queue,
                   stop_tracking_event, write_measure_task, is_running,
                   control_log, uses, reports>>

\* _TrackerContextManager.timeout, from the call to the first sleep:
\* measures_nb is None, which no length equals
TimeoutCall ==
    /\ tracker_pc = "inside"
    /\ timeouts < MaxTimeouts
    /\ measures_nb' = Len(measures)
    /\ tracker_pc' = "sleeping"
    /\ UNCHANGED <<not_tracker, measures, queue, stop_tracking_event,
                   write_measure_task, data_frame, is_running, control_log,
                   uses, reports, timeouts>>

\* timeout() after a sleep: sleep again if the number of measures changed,
\* return the frame if it did not
TimeoutWake ==
    /\ tracker_pc = "sleeping"
    /\ IF measures_nb # Len(measures)
       THEN /\ measures_nb' = Len(measures)
            /\ UNCHANGED <<tracker_pc, data_frame, timeouts>>
       ELSE /\ data_frame' \in SortValues(measures)
            /\ timeouts' = timeouts + 1
            /\ tracker_pc' = "inside"
            /\ measures_nb' = -1
    /\ UNCHANGED <<not_tracker, measures, queue, stop_tracking_event,
                   write_measure_task, is_running, control_log, uses,
                   reports>>

(* --------------------------- specification ---------------------------- *)
\* the steps of the worker, of the device and of the waiters
Run ==
    \/ \E t \in 1..MaxCalls : GetResponse(t)
    \/ TxWrite
    \/ TxWriteFails
    \/ RxDrain
    \/ ReplyCallback
    \/ FirstException
    \/ Supervise
    \/ CallReturns
    \/ \E v \in ReplyValues : DeviceAnswer(v)
    \/ \E arg \in PushArgs : DevicePush(PushKey, arg)
    \/ \E chunk \in Chunks : DeviceChunk(chunk)

\* The payloads a caller may pass.  Nothing reads a payload but the device
\* that doubles it, and nothing reads the argument of a reply: exchanging
\* the two payloads in a behaviour gives a behaviour, so the first call is
\* issued with the first of them.
Issuable == IF next_request_uid = 0 THEN {<<1>>} ELSE Payloads

Next ==
    \/ \E payload \in Issuable : NewRequest(payload)
    \/ Run

Spec == Init /\ [][Next]_vars

\* The properties of progress read no payload: their specification issues
\* every call with the same one.
NextLive ==
    \/ \E payload \in {<<1>>} : NewRequest(payload)
    \/ Run

\* Each event loop runs what is in its queue: the host loop a waiter whose
\* polling condition holds at every poll, the worker loop the done callback
\* of a failed task, the scheduled reply callback tasks, __start once it is
\* woken and the end of aio.run.  Nothing is assumed of the device or the
\* callers.
FairSpec ==
    /\ Init
    /\ [][NextLive]_vars
    /\ WF_vars(FirstException)
    /\ WF_vars(ReplyCallback)
    /\ WF_vars(Supervise)
    /\ WF_vars(CallReturns)
    /\ \A t \in 1..MaxCalls : WF_vars(GetResponse(t))

\* The worker with reply callbacks that may raise, under the same scheduling
\* as FairSpec.
NextCallbackFault ==
    \/ NextLive
    \/ ReplyCallbackFails

CallbackFaultSpec ==
    /\ Init
    /\ [][NextCallbackFault]_vars
    /\ WF_vars(FirstException)
    /\ WF_vars(ReplyCallback)
    /\ WF_vars(Supervise)
    /\ WF_vars(CallReturns)
    /\ \A t \in 1..MaxCalls : WF_vars(GetResponse(t))

\* the stub device of the tests: one reply per frame, twice the argument
DeviceAnswerFaithful ==
    /\ device_answered < Len(serial_out)
    /\ DeviceAnswer(Double(FramePayload(serial_out[device_answered + 1])))

\* The link without fault: the port does not fail, the device answers each
\* frame once with its reply and may send packets of its own whose action
\* answers something.
NextFaithful ==
    \/ \E payload \in Issuable : NewRequest(payload)
    \/ \E t \in 1..MaxCalls : GetResponse(t)
    \/ TxWrite
    \/ RxDrain
    \/ ReplyCallback
    \/ DeviceAnswerFaithful
    \/ \E arg \in PushArgs : DevicePush(EchoKey, arg)

\* weak fairness of RxDrain, its enabling condition written out: the
\* receiver polls and bytes are waiting (the step then changes serial_in)
RxDrainFair ==
    \/ []<>(~(rx_pc = "poll" /\ serial_in # <<>>))
    \/ []<><<RxDrain>>_vars

\* The two loops of the worker poll again after every sleep, a scheduled
\* reply callback task runs, the waiters poll, and the device answers the
\* frames it is sent.
FaithfulSpec ==
    /\ Init
    /\ [][NextFaithful]_vars
    /\ WF_vars(TxWrite)
    /\ RxDrainFair
    /\ WF_vars(ReplyCallback)
    /\ WF_vars(DeviceAnswerFaithful)
    /\ \A t \in 1..MaxCalls : WF_vars(GetResponse(t))

\* The receiver alone on a line that carries any bytes, a chunk at a time.
NextRx ==
    \/ \E chunk \in ByteChunks : DeviceBytes(chunk)
    \/ RxDrain

RxSpec == Init /\ [][NextRx]_vars

\* The Tracker used by one coroutine, context after context, with a device
\* that reports measures in any order.
NextTracker ==
    \/ Aenter
    \/ StartReturns
    \/ TimeoutCall
    \/ TimeoutWake
    \/ Aexit
    \/ StopReturns
    \/ Joined
    \/ \E m \in Measures : AppendToQueue(m)
    \/ WriteMeasure
    \/ WriteMeasureReturns

TrackerSpec == Init /\ [][NextTracker]_vars

(* ------------------------------- Shell -------------------------------- *)
\* The command lines typed: the commands of the tests' MockShell, all
\* coroutines.  "increment 5" and "move_bar 5" give an argument to a command
\* that takes none; "move_bar" captures the keyboard, which makes it blocking.
Lines == {"increment", "big_alert", "increment 5", "error", "panic",
          "freeze", "move_bar", "move_bar 5"}
BadArguments == {"increment 5", "move_bar 5"}
CaptureKeyboard == {"move_bar", "move_bar 5"}

\* the messages logged
ExitMessage == "Exiting the shell..."
Usage == "usage"
ParseError == "unrecognized arguments"
Oops == "Oops"
Unrecoverable == "An unrecoverable error has occured"
PressEnter == "Press ENTER to quit."
Alert == "alert"

\* the callbacks in the loop's queue: the next step of run, __create_task
\* for a coroutine, the next step of a command's task, its done callback
RunHandle == <<"run", 0>>
CreateHandle(k) == <<"create", k>>
StepHandle(k) == <<"step", k>>
FinalizeHandle(k) == <<"finalize", k>>

CommandIds == 1..Len(commands)
IsDone(k) == commands[k].state \in {"finished", "ShellError", "Exception",
                                    "cancelled"}

\* Shell.is_running, read by command.startup
ShellIsRunning == continue

\* Shell.run up to the first sleep(0) of __to_thread: the thread is started
\* and is alive
RunStart ==
    /\ run_pc = "idle"
    /\ continue' = TRUE
    /\ thread_pc' = "read"
    /\ ready' = Append(ready, RunHandle)
    /\ run_pc' = "polling"
    /\ UNCHANGED <<not_shell, commands, running_tasks, shell_x, ostream,
                   done_event, listening, cur, lines_read, create_task_result>>

\* Task.cancel() for every task of __running_tasks
CancelAll ==
    [k \in CommandIds |->
        IF k \in running_tasks /\ ~IsDone(k)
        THEN [commands[k] EXCEPT !.must_cancel = TRUE]
        ELSE commands[k]]

\* the next step of run while it polls the thread: sleep again while the
\* thread is alive; once it is dead, join it, log the exit message, cancel
\* the running tasks and sleep(0)
RunPoll ==
    /\ run_pc = "polling"
    /\ ready # <<>> /\ Head(ready) = RunHandle
    /\ ready' = Append(Tail(ready), RunHandle)
    /\ IF thread_pc # "dead"
       THEN UNCHANGED <<run_pc, ostream, commands>>
       ELSE /\ run_pc' = "exiting"
            /\ ostream' = Append(ostream, ExitMessage)
            /\ commands' = CancelAll
    /\ UNCHANGED <<not_shell, thread_pc, continue, running_tasks, shell_x,
                   done_event, listening, cur, lines_read, create_task_result>>

\* the last step of run, after the sleep(0) that follows the cancellations
RunReturn ==
    /\ run_pc = "exiting"
    /\ ready # <<>> /\ Head(ready) = RunHandle
    /\ ready' = Tail(ready)
    /\ run_pc' = "returned"
    /\ UNCHANGED <<not_shell, thread_pc, continue, commands, running_tasks,
                   shell_x, ostream, done_event, listening, cur, lines_read,
                   create_task_result>>

\* mutant: a line whose arguments do not parse is run all the same
StartupRunsAnyway(line) ==
    /\ thread_pc = "read"
    /\ lines_read < MaxLines
    /\ lines_read' = lines_read + 1
    /\ cur' = line
    /\ IF ~ShellIsRunning
       THEN thread_pc' = "dead" /\ UNCHANGED listening
       ELSE /\ listening' = (listening \/ line \in CaptureKeyboard)
            /\ thread_pc' = "create_task"
    /\ UNCHANGED ostream
    /\ UNCHANGED <<not_shell, run_pc, continue, ready, commands,
                   running_tasks, shell_x, done_event, create_task_result>>

\* cmdloop reads a line and calls the command: startup returns True, which
\* ends cmdloop and the thread, when the shell is not running; it starts a
\* keyboard listener for a capturing command; call_command parses the
\* arguments.  A parse error logs the usage and the error and raises
\* SystemExit, which call_command swallows; startup returns None and cmdloop
\* reads on.
Startup(line) ==
    /\ thread_pc = "read"
    /\ lines_read < MaxLines
    /\ lines_read' = lines_read + 1
    /\ cur' = line
    /\ IF ~ShellIsRunning
       THEN thread_pc' = "dead" /\ UNCHANGED <<listening, ostream>>
       ELSE /\ listening' = (listening \/ line \in CaptureKeyboard)
            /\ IF line \in BadArguments
               THEN /\ ostream' = ostream \o <<Usage, ParseError>>
                    /\ thread_pc' = "read"
               ELSE /\ thread_pc' = "create_task"
                    /\ UNCHANGED ostream
    /\ UNCHANGED <<not_shell, run_pc, continue, ready, commands,
                   running_tasks, shell_x, done_event, create_task_result>>

\* cmdloop reads the end of the input: do_EOF returns True, cmdloop and the
\* thread end
ReadEOF ==
    /\ thread_pc = "read"
    /\ thread_pc' = "dead"
    /\ UNCHANGED <<not_shell, run_pc, continue, ready, commands,
                   running_tasks, shell_x, ostream, done_event, listening,
                   cur, lines_read, create_task_result>>

NewCommand(line) ==
    [line |-> line, state |-> "scheduled", started |-> FALSE,
     must_cancel |-> FALSE, finalized |-> FALSE]

\* call_command from the coroutine it has built: Shell.create_task, called
\* from the thread, then done_event.wait() for a blocking command
CreateTask ==
    /\ thread_pc = "create_task"
    /\ IF ~continue
       THEN /\ create_task_result' = TRUE
            /\ UNCHANGED <<commands, ready>>
       ELSE /\ commands' = Append(commands, NewCommand(cur))
            /\ ready' = Append(ready, CreateHandle(Len(commands) + 1))
            /\ create_task_result' = FALSE
    /\ IF cur \in CaptureKeyboard
       THEN done_event' = FALSE /\ thread_pc' = "wait"
       ELSE UNCHANGED done_event /\ thread_pc' = "read"
    /\ UNCHANGED <<not_shell, run_pc, continue, running_tasks, shell_x,
                   ostream, listening, cur, lines_read>>

\* done_event.wait() returns: the event is set
DoneEventWait ==
    /\ thread_pc = "wait"
    /\ done_event
    /\ thread_pc' = "read"
    /\ UNCHANGED <<not_shell, run_pc, continue, ready, commands,
                   running_tasks, shell_x, ostream, done_event, listening,
                   cur, lines_read, create_task_result>>

\* Shell.__create_task, run by the loop: the task is created, which queues
\* its first step, and joins __running_tasks
CreateTaskCallback ==
    /\ ready # <<>>
    /\ \E k \in CommandIds :
         /\ Head(ready) = CreateHandle(k)
         /\ commands' = [commands EXCEPT ![k].state = "pending"]
         /\ ready' = Append(Tail(ready), StepHandle(k))
         /\ running_tasks' = running_tasks \cup {k}
    /\ UNCHANGED <<not_shell, run_pc, thread_pc, continue, shell_x, ostream,
                   done_event, listening, cur, lines_read, create_task_result>>

\* how a step of the task of command k may end: "suspended" at an await,
\* or with the task done.  A cancelled task has CancelledError thrown in: a
\* coroutine that has not started never runs, do_freeze catches it and
\* returns, the others let it through.
Outcomes(k) ==
    LET c == commands[k] IN
    IF c.must_cancel
    THEN IF c.started /\ c.line = "freeze" THEN {"finished"} ELSE {"cancelled"}
    ELSE CASE c.line = "increment" -> {"finished"}
           [] c.line = "big_alert" -> {"finished"}
           [] c.line = "error" -> {"ShellError"}
           [] c.line = "panic" -> {"Exception"}
           [] c.line = "freeze" -> {"suspended"}
           [] OTHER -> {"suspended", "finished", "ShellError", "Exception"}

\* _run_then_notify reaches done_event.set(): the coroutine of a blocking
\* command has returned
Notifies(k, outcome) ==
    commands[k].line \in CaptureKeyboard /\ outcome = "finished"

\* one step of the task of a command: the body runs to its next await or
\* to its end; the end of the task queues its done callback
TaskStep ==
    /\ ready # <<>>
    /\ \E k \in CommandIds :
         /\ Head(ready) = StepHandle(k)
         /\ \E outcome \in Outcomes(k) :
              LET runs == ~commands[k].must_cancel IN
              /\ commands' =
                   [commands EXCEPT
                      ![k].started = @ \/ runs,
                      ![k].state = IF outcome = "suspended" THEN @
                                   ELSE outcome]
              /\ ready' = Append(Tail(ready),
                                 IF outcome = "suspended" THEN StepHandle(k)
                                 ELSE FinalizeHandle(k))
              /\ shell_x' = IF runs /\ commands[k].line = "increment"
                            THEN shell_x + 1 ELSE shell_x
              /\ ostream' = IF runs /\ commands[k].line = "big_alert"
                            THEN Append(ostream, Alert) ELSE ostream
              /\ done_event' = (done_event \/ Notifies(k, outcome))
    /\ UNCHANGED <<not_shell, run_pc, thread_pc, continue, running_tasks,
                   listening, cur, lines_read, create_task_result>>

\* mutant: a ShellError stops the shell like any other exception
FinalizeTaskStopsOnShellError ==
    /\ ready # <<>>
    /\ \E k \in CommandIds :
         /\ Head(ready) = FinalizeHandle(k)
         /\ ready' = Tail(ready)
         /\ listening' = (listening /\ commands[k].line \notin CaptureKeyboard)
         /\ running_tasks' = running_tasks \ {k}
         /\ commands' = [commands EXCEPT ![k].finalized = TRUE]
         /\ CASE commands[k].state = "ShellError" ->
                   /\ continue' = FALSE
                   /\ ostream' = Append(ostream, Oops)
              [] commands[k].state = "Exception" ->
                   /\ continue' = FALSE
                   /\ ostream' = ostream \o <<Unrecoverable, PressEnter>>
              [] OTHER -> UNCHANGED <<continue, ostream>>
    /\ UNCHANGED <<not_shell, run_pc, thread_pc, shell_x, done_event, cur,
                   lines_read, create_task_result>>

\* Shell.__finalize_task, the done callback of a command's task: call the
\* cleanup callback (stop the listener of a capturing command), forget the
\* task, then look at its exception: a ShellError is logged, any other
\* Exception stops the shell; the CancelledError that task.exception()
\* raises for a cancelled task is no Exception and leaves the callback
FinalizeTask ==
    /\ ready # <<>>
    /\ \E k \in CommandIds :
         /\ Head(ready) = FinalizeHandle(k)
         /\ ready' = Tail(ready)
         /\ listening' = (listening /\ commands[k].line \notin CaptureKeyboard)
         /\ running_tasks' = running_tasks \ {k}
         /\ commands' = [commands EXCEPT ![k].finalized = TRUE]
         /\ CASE commands[k].state = "ShellError" ->
                   /\ ostream' = Append(ostream, Oops)
                   /\ UNCHANGED continue
              [] commands[k].state = "Exception" ->
                   /\ continue' = FALSE
                   /\ ostream' = ostream \o <<Unrecoverable, PressEnter>>
              [] OTHER -> UNCHANGED <<continue, ostream>>
    /\ UNCHANGED <<not_shell, run_pc, thread_pc, shell_x, done_event, cur,
                   lines_read, create_task_result>>

\* The shell: run, the thread of cmdloop that reads up to MaxLines command
\* lines and then the end of the input, and the event loop.
NextShell ==
    \/ RunStart
    \/ RunPoll
    \/ RunReturn
    \/ \E line \in Lines : Startup(line)
    \/ ReadEOF
    \/ CreateTask
    \/ DoneEventWait
    \/ CreateTaskCallback
    \/ TaskStep
    \/ FinalizeTask

ShellSpec == Init /\ [][NextShell]_vars

(* ------------------------ SynchronizedOStream ------------------------- *)
\* the strings written, as sequences of characters: the empty string, a
\* piece of a line, a whole line
Msgs == {<<>>, <<"a">>, <<"a", "\n">>}
\* msg[-1] == "\n"
NewlineTerminated(msg) == msg # <<>> /\ msg[Len(msg)] = "\n"

\* SynchronizedOStream.__enter__: acquire the lock, which blocks while it is
\* held, and set __in_context
Enter(u) ==
    /\ ~in_with[u]
    /\ write_pc[u] = "idle"
    /\ ~lock
    /\ lock' = TRUE
    /\ in_context' = TRUE
    /\ in_with' = [in_with EXCEPT ![u] = TRUE]
    /\ UNCHANGED <<not_stream, write_pc, write_call, written, calls>>

\* SynchronizedOStream.__exit__: clear __in_context and release the lock
Exit(u) ==
    /\ in_with[u]
    /\ write_pc[u] = "idle"
    /\ in_context' = FALSE
    /\ lock' = FALSE
    /\ in_with' = [in_with EXCEPT ![u] = FALSE]
    /\ UNCHANGED <<not_stream, write_pc, write_call, written, calls>>

\* SynchronizedOStream.write up to the test of __in_context: an empty
\* string returns 0 at once; otherwise the call goes on to acquire the lock
\* when the stream is not in a context, and to the writing when it is
WriteCall(u, msg) ==
    /\ write_pc[u] = "idle"
    /\ calls < MaxWrites
    /\ calls' = calls + 1
    /\ write_call' = [write_call EXCEPT ![u] =
                        [NoCall EXCEPT !.msg = msg, !.ctx = in_context,
                                       !.ctx_end = in_context,
                                       !.done = (msg = <<>>)]]
    /\ write_pc' = [write_pc EXCEPT ![u] =
                      IF msg = <<>> THEN "idle"
                      ELSE IF in_context THEN "write" ELSE "acquire"]
    /\ UNCHANGED <<not_stream, lock, in_context, in_with, written>>

\* self.__lock.acquire() in write: blocks while the lock is held
WriteAcquire(u) ==
    /\ write_pc[u] = "acquire"
    /\ ~lock
    /\ lock' = TRUE
    /\ write_call' = [write_call EXCEPT ![u].acquired = TRUE]
    /\ write_pc' = [write_pc EXCEPT ![u] = "write"]
    /\ UNCHANGED <<not_stream, in_context, in_with, written, calls>>

\* the rest of write: give the string to the wrapped stream, then release
\* the lock if the string ends a line and the stream is not in a context;
\* releasing a lock that is not held raises RuntimeError
WriteFinish(u) ==
    /\ write_pc[u] = "write"
    /\ written' = Append(written, write_call[u].msg)
    /\ LET releases == NewlineTerminated(write_call[u].msg) /\ ~in_context IN
       /\ lock' = IF releases THEN FALSE ELSE lock
       /\ write_call' = [write_call EXCEPT
                           ![u].ctx_end = in_context,
                           ![u].released = releases /\ lock,
                           ![u].raised = releases /\ ~lock,
                           ![u].done = TRUE]
    /\ write_pc' = [write_pc EXCEPT ![u] = "idle"]
    /\ UNCHANGED <<not_stream, in_context, in_with, calls>>

\* The stream used by the thread of cmdloop and by the event loop, each
\* writing inside or outside a "with stream:" block.
NextStream ==
    \E u \in Users :
        \/ Enter(u)
        \/ Exit(u)
        \/ \E msg \in Msgs : WriteCall(u, msg)
        \/ WriteAcquire(u)
        \/ WriteFinish(u)

StreamSpec == Init /\ [][NextStream]_vars

(* ------------------------- derived quantities ------------------------- *)
TaskIds == 1..Len(tasks)
Returned(t) == t \in TaskIds /\ tasks[t].state = "returned"
Raised(t) == t \in TaskIds /\ tasks[t].state = "raised"
IsPending(t) == t \in TaskIds /\ tasks[t].state = "pending"

\* the arguments of the host-reply packets the receiver resolved, in the
\* order they came over the line: those already sent on and those scheduled
SentReplies == SelectSeq(pipe_to_host, LAMBDA m : ~IsException(m))
WireReplies == [i \in 1..Len(SentReplies) |-> SentReplies[i].val] \o reply_tasks

\* a failure message is on the channel, received or not
FailureSent == \E i \in 1..Len(pipe_to_host) : IsException(pipe_to_host[i])
\* the failure messages the proxy has received
ConsumedFailures == {i \in 1..host_recv : IsException(pipe_to_host[i])}

(* ------------------------------ claims -------------------------------- *)

\* C1: on a proxy that is not poisoned, the k-th message read from the
\* channel is delivered to the call with id k (ids from 0) and the calls
\* complete in strictly increasing id order, however many were pending at
\* the same time.
C1_DeliveredInIssuanceOrder ==
    exception = None =>
        /\ completed = [k \in 1..Len(completed) |-> k - 1]
        /\ host_recv = Len(completed)
        /\ \A t \in TaskIds :
             /\ tasks[t].state # "raised"
             /\ Returned(t) =>
                  /\ tasks[t].uid < host_recv
                  /\ tasks[t].result = pipe_to_host[tasks[t].uid + 1].val

\* C1 witness: MaxCalls calls were pending together and all have returned
C1_Witness ==
    /\ burst = MaxCalls
    /\ exception = None
    /\ \A t \in 1..MaxCalls : Returned(t)

\* two calls have been issued, the second before the first resolved, and
\* both have returned
TwoBackToBackReturned ==
    /\ Len(tasks) = 2
    /\ burst = 2
    /\ Returned(1) /\ Returned(2)

\* the first two answers on the line are the answers to the two requests
InRequestOrder ==
    /\ Len(WireReplies) >= 2
    /\ WireReplies[1] = Double(tasks[1].payload)
    /\ WireReplies[2] = Double(tasks[2].payload)
InReverseOrder ==
    /\ Len(WireReplies) >= 2
    /\ tasks[1].payload # tasks[2].payload
    /\ WireReplies[1] = Double(tasks[2].payload)
    /\ WireReplies[2] = Double(tasks[1].payload)

C3_RoundTrip ==
    (device = "faithful" /\ tx_exception = None) =>
        /\ rx_exception = None
        /\ \A t \in TaskIds :
             /\ tasks[t].state # "raised"
             /\ Returned(t) => tasks[t].result = Double(tasks[t].payload)

\* C3 witness: overlapping calls with different payloads, all returned
C3_Witness ==
    /\ device = "faithful"
    /\ tx_exception = None
    /\ burst >= 2
    /\ \A t \in 1..MaxCalls : Returned(t)
    /\ tasks[1].payload # tasks[2].payload

\* C4: every frame but the last written has been followed by a
\* notification that released the waiting transmitter: the transmitter is
\* between a write and its release exactly while it waits.
C4_OneFrameOutstanding ==
    /\ Len(serial_out) <= wakeups + 1
    /\ tx_pc = "poll" => Len(serial_out) = wakeups
    /\ tx_pc = "wait" => Len(serial_out) = wakeups + 1

\* C4 witness: a second frame is out while a further payload is queued
C4_Witness ==
    /\ Len(serial_out) = 2
    /\ wakeups = 1
    /\ RemotePoll

\* C5: the calls that raised are the call that received the failure
\* message and every call that completed after it; each of them raised the
\* stored fault, none returned a payload, no call completed twice.
C5_FaultReachesEveryCall ==
    /\ Cardinality({completed[j] : j \in 1..Len(completed)}) = Len(completed)
    /\ exception = None => \A t \in TaskIds : ~Raised(t)
    /\ exception # None =>
         \E i \in 1..Len(completed) :
            \A j \in 1..Len(completed) :
               /\ Raised(completed[j] + 1) <=> j >= i
               /\ j >= i => tasks[completed[j] + 1].error = exception

\* C5 witness: call 0 received the failure message, the call pending with
\* it and a third call raised the same fault
C5_Witness ==
    /\ exception # None
    /\ host_recv = 1
    /\ completed[1] = 0
    /\ burst = 2
    /\ \A t \in 1..MaxCalls : Raised(t) /\ tasks[t].error = exception

C7_PoisonPermanent ==
    /\ exception = None <=> ConsumedFailures = {}
    /\ exception # None =>
         /\ ConsumedFailures = {host_recv}
         /\ exception = pipe_to_host[host_recv].exc

\* C7 witness: a poisoned proxy with a second failure message left unread and
\* calls that completed after the poisoning
C7_Witness ==
    /\ exception # None
    /\ host_recv < Len(pipe_to_host)
    /\ IsException(pipe_to_host[Len(pipe_to_host)])
    /\ pipe_to_host[Len(pipe_to_host)].exc # exception
    /\ Len(completed) > host_recv

\* C8: the i-th call of new_request (from 0) gets uid i and the counter is
\* the number of calls.
C8_UidsCountCalls ==
    /\ next_request_uid = Len(tasks)
    /\ \A t \in TaskIds : tasks[t].uid = t - 1

\* C8 witness: calls issued one after the other, the later ones on a
\* poisoned proxy
C8_Witness ==
    /\ Len(tasks) = MaxCalls
    /\ burst = 1
    /\ Raised(1)

\* C9: no two waiters hold the same uid, and the payload of the waiter with
\* uid k is the k-th payload put on the channel (from 0).
C9_UidsSerialized ==
    /\ \A t, u \in TaskIds : t # u => tasks[t].uid # tasks[u].uid
    /\ \A t \in TaskIds :
         /\ tasks[t].uid + 1 <= Len(pipe_to_remote)
         /\ pipe_to_remote[tasks[t].uid + 1] = tasks[t].payload

\* C9 witness: MaxCalls callers at once, not all with the same payload
C9_Witness ==
    /\ burst = MaxCalls
    /\ \E t, u \in TaskIds : tasks[t].payload # tasks[u].payload

\* the WorkerState of the data model, read off the three tasks
WorkerState ==
    IF start_pc = "done" THEN "Terminated"
    ELSE IF tx_pc = "failed" \/ rx_pc = "failed" THEN "Faulted"
    ELSE "Running"

\* C10: a faulted worker never runs again and eventually terminates; in a
\* terminated worker the fault of every failed loop is on the channel and
\* the other loop is cancelled; after termination no loop, callback or
\* supervisor step changes the worker, the line or the channel.
C10_FaultTerminatesWorker ==
    /\ [][WorkerState = "Faulted" => WorkerState' # "Running"]_vars
    /\ (WorkerState = "Faulted") ~> (WorkerState = "Terminated")
    /\ [](WorkerState = "Terminated" =>
            /\ tx_pc \in {"failed", "cancelled"}
            /\ rx_pc \in {"failed", "cancelled"}
            /\ tx_pc = "failed" =>
                 \E i \in 1..Len(pipe_to_host) :
                    pipe_to_host[i] = ExceptionMsg(tx_exception)
            /\ rx_pc = "failed" =>
                 \E i \in 1..Len(pipe_to_host) :
                    pipe_to_host[i] = ExceptionMsg(rx_exception))
    /\ [][WorkerState = "Terminated" =>
            UNCHANGED <<worker_vars, serial_out, remote_recv, pipe_to_host>>]_vars

\* C10 witness: the receiver failed while the transmitter waited for a reply
\* with a payload queued; the worker terminated with the transmitter cancelled
C10_Witness ==
    /\ WorkerState = "Terminated"
    /\ rx_pc = "failed"
    /\ tx_pc = "cancelled"
    /\ RemotePoll
    /\ Len(serial_out) > device_answered

\* the fault of the receiver loop is on the channel
RxFaultRelayed ==
    \E i \in 1..Len(pipe_to_host) : pipe_to_host[i] = ExceptionMsg("RuntimeError")

\* the calls in flight when the codec dropped a packet, and the calls after
\* them: those whose reply the codec had not resolved
InFlight(t) == t \in TaskIds /\ tasks[t].uid >= Len(WireReplies)

\* C11: once the codec has reported DROPPED for a byte after a complete
\* header, the receiver loop has ended with a RuntimeError; the supervisor
\* eventually puts that fault on the channel; the replies the codec has
\* resolved stay what they are, and every call whose reply is not among
\* them, in flight or issued later, never returns a payload and eventually
\* raises.
C11_DroppedPacketIsFatal ==
    /\ [](dropped => (rx_pc = "failed" /\ rx_exception = "RuntimeError"))
    /\ dropped ~> RxFaultRelayed
    /\ [][dropped => WireReplies' = WireReplies]_vars
    /\ [](dropped => \A t \in TaskIds : InFlight(t) => ~Returned(t))
    /\ []<>(dropped => \A t \in TaskIds : InFlight(t) => Raised(t))

\* C11 witness: the device answered the first request with a header and a
\* byte the codec drops; the call in flight and the call issued after it
\* raised the receiver's fault
C11_Witness ==
    /\ dropped
    /\ Len(serial_out) = 1 /\ device_answered = 0
    /\ SentReplies = <<>>
    /\ burst = 1
    /\ Raised(1) /\ tasks[1].error = "RuntimeError"
    /\ Raised(2) /\ tasks[2].error = "RuntimeError"

\* a task of the worker has ended with an exception
WorkerFault ==
    \/ tx_exception # None
    \/ rx_exception # None
    \/ callback_exception # None

\* C12 as stated: a fault raised in the transmitter loop, in the receiver
\* loop or in a reply callback task leads to a failure message on the
\* channel, and with it every call completes instead of waiting for ever.
C12_Original ==
    /\ WorkerFault ~> FailureSent
    /\ []<>(WorkerFault => Pending = 0)

\* C12, the part the code keeps: a fault of the transmitter loop or of the
\* receiver loop leads to a failure message on the channel.
C12_LoopFaultRelayed ==
    (tx_exception # None \/ rx_exception # None) ~> FailureSent

\* C12 witness: a reply callback task raised for the reply of call 0; no
\* loop has failed, nothing is on the channel, the transmitter waits and the
\* call is pending
C12_Witness ==
    /\ callback_exception # None
    /\ tx_exception = None /\ rx_exception = None
    /\ reply_tasks = <<>> /\ serial_in = <<>>
    /\ pipe_to_host = <<>>
    /\ tx_pc = "wait"
    /\ IsPending(1)
    /\ device = "faithful"

\* C13: with a device that answers each frame with its reply and also sends
\* packets of its own for another key, the callback of that key is invoked
\* with the packet's own argument once the packet is read; only the answers
\* to the frames resolve host calls and release the transmitter, and every
\* call that returned holds the reply to its own request.
C13_PushAndReplyIndependent ==
    device = "faithful" =>
        /\ witness \in PushArgs \cup {0}
        /\ (device_extra > 0 /\ serial_in = <<>> /\ rx_pc = "poll")
              => witness \in PushArgs
        /\ Len(WireReplies) <= device_answered
        /\ wakeups <= Len(SentReplies)
        /\ \A t \in TaskIds :
             Returned(t) => tasks[t].result = Double(tasks[t].payload)

\* C13 witness: the device sent its packet after the request and before the
\* answer; the callback has its argument, the answer was read after it, the
\* transmitter was released once and the call returned its reply
C13_Witness ==
    /\ device = "faithful"
    /\ device_extra = 1 /\ device_answered = 1
    /\ witness \in PushArgs
    /\ Len(tasks) = 1 /\ Returned(1)
    /\ tasks[1].result = Double(tasks[1].payload)
    /\ wakeups = 1

\* C14: the frames written to the serial device are, in order, the header
\* followed by the first payloads passed to new_request: the payloads
\* written are a prefix of the payloads submitted.
C14_SubmissionOrder ==
    /\ Len(serial_out) <= Len(pipe_to_remote)
    /\ Len(pipe_to_remote) = Len(tasks)
    /\ \A i \in 1..Len(serial_out) :
         /\ serial_out[i] = HEADER \o tasks[i].payload
         /\ FramePayload(serial_out[i]) = pipe_to_remote[i]

\* C14 witness: MaxCalls payloads were queued together, not all the same,
\* and all have been written
C14_Witness ==
    /\ burst = MaxCalls
    /\ Len(serial_out) = MaxCalls
    /\ \E i, j \in 1..MaxCalls : tasks[i].payload # tasks[j].payload

\* C15: a call that has been resolved keeps its outcome for ever; an outcome
\* is a payload without fault or a fault without payload; each completion
\* is the completion of one pending call and takes at most one message from
\* the channel, so that no more messages are consumed than calls completed.
C15_ResolvedOnce ==
    /\ [][\A t \in TaskIds : ~IsPending(t) => tasks'[t] = tasks[t]]_vars
    /\ [][host_recv' # host_recv =>
            /\ host_recv' = host_recv + 1
            /\ Len(completed') = Len(completed) + 1]_vars
    /\ [](/\ host_recv <= Len(completed)
          /\ Len(completed) = Len(tasks) - Pending
          /\ Cardinality({completed[j] : j \in 1..Len(completed)})
                = Len(completed)
          /\ \A t \in TaskIds :
               /\ IsPending(t) => tasks[t].result = 0 /\ tasks[t].error = None
               /\ Returned(t) => tasks[t].error = None
               /\ Raised(t) => tasks[t].result = 0 /\ tasks[t].error # None)

\* C15 witness: one call returned a payload, one raised the fault it
\* received and one raised the stored fault without receiving
C15_Witness ==
    /\ Returned(1) /\ Raised(2) /\ Raised(3)
    /\ host_recv = 2
    /\ Len(completed) = 3
    /\ Len(pipe_to_host) > host_recv

\* C16: a packet of the device whose action answers something is resolved
\* without fault: the answer is discarded and one warning is emitted for
\* each such packet, the receiver awaits the next header, nothing is sent
\* to the host, both loops keep running, and every request, also one issued
\* after the warning, is eventually answered with its own reply.
C16_UnreadResponseNotFatal ==
    /\ [](/\ WorkerState = "Running"
          /\ tx_pc \in {"poll", "wait"} /\ rx_pc = "poll"
          /\ ~FailureSent
          /\ ~loaded
          /\ warnings <= device_extra
          /\ Len(SentReplies) + Len(reply_tasks) <= device_answered)
    /\ [](serial_in = <<>> =>
            /\ warnings = device_extra
            /\ header_sentinel = Len(HEADER)
            /\ dispatcher = <<>>)
    /\ []<>(warnings > 0 =>
              \A t \in TaskIds :
                 Returned(t) /\ tasks[t].result = Double(tasks[t].payload))

\* C16 witness: the device sent such a packet while the first request was
\* written and not answered; the warning is out, the packet is gone and the
\* transmitter still waits for the reply
C16_Witness ==
    /\ warnings = 1
    /\ serial_in = <<>>
    /\ Len(serial_out) = 1 /\ device_answered = 0
    /\ tx_pc = "wait"
    /\ IsPending(1)

\* C17: every message the proxy has received was classified by its tag: a
\* message sent as bytes by the reply callback was returned, with its
\* payload, by the call that received it, and a message sent as an exception
\* by the supervisor was raised, with that exception, by the call that
\* received it.
C17_ClassifiedByTag ==
    \A i \in 1..host_recv :
       /\ i \in TaskIds
       /\ pipe_to_host[i].kind = "bytes" =>
            /\ Returned(i)
            /\ tasks[i].result = pipe_to_host[i].val
       /\ pipe_to_host[i].kind = "exception" =>
            /\ Raised(i)
            /\ tasks[i].error = pipe_to_host[i].exc
            /\ tasks[i].error \in {tx_exception, rx_exception} \ {None}

\* C17 witness: the proxy received a reply, with the second reply value,
\* and then a failure message
C17_Witness ==
    /\ host_recv = 2
    /\ pipe_to_host[1] = BytesMsg(4)
    /\ IsException(pipe_to_host[2])
    /\ Returned(1) /\ Raised(2)

\* C18: on a link without fault, with a device that answers each frame
\* once, no call raises and every call issued eventually returns the reply
\* to its own request, whatever the number of calls queued together.
C18_EveryCallResolves ==
    /\ [](\A t \in TaskIds : ~Raised(t))
    /\ []<>(\A t \in TaskIds :
              Returned(t) /\ tasks[t].result = Double(tasks[t].payload))

\* C18 witness: MaxCalls calls were queued together, the device answered
\* each frame and the transmitter was released for each
C18_Witness ==
    /\ burst = MaxCalls
    /\ device_answered = MaxCalls
    /\ wakeups = MaxCalls
    /\ \A t \in 1..MaxCalls : Returned(t)
    /\ \E t, u \in 1..MaxCalls : tasks[t].payload # tasks[u].payload

\* C19: the control calls of a Tracker used context after context are
\* START, STOP, START, STOP, ...: START is issued on entry, when the device
\* does not run, STOP on exit, when it runs, and the device runs exactly
\* from a START to the next STOP.
C19_StartStopAlternate ==
    /\ [](/\ \A i \in 1..Len(control_log) :
               control_log[i] = IF i % 2 = 1 THEN "START" ELSE "STOP"
          /\ is_running <=> Len(control_log) % 2 = 1
          /\ tracker_pc \in {"starting", "inside", "sleeping"} => is_running
          /\ tracker_pc \in {"stopping", "joining", "outside"} => ~is_running)
    /\ [][control_log' # control_log =>
            \E command \in {"START", "STOP"} :
               /\ control_log' = Append(control_log, command)
               /\ command = "START" =>
                    ~is_running /\ tracker_pc = "outside"
               /\ command = "STOP" =>
                    is_running /\ tracker_pc = "inside"]_vars

\* C19 witness: two contexts were entered and left
C19_Witness ==
    /\ uses = 2
    /\ control_log = <<"START", "STOP", "START", "STOP">>

\* the number of times a measure occurs in a sequence of rows
Count(rows, m) == Cardinality({i \in 1..Len(rows) : rows[i] = m})

\* C20: timeout() returns at a check that finds as many measures as the
\* check one sleep before it, and the frame it returns holds the measures
\* recorded so far, each as often as it was recorded, by increasing
\* timestamp.
C20_TimeoutReturnsSortedFrame ==
    [][timeouts' # timeouts =>
        /\ tracker_pc = "sleeping"
        /\ measures_nb = Len(measures)
        /\ Len(data_frame') = Len(measures)
        /\ \A m \in Measures : Count(data_frame', m) = Count(measures, m)
        /\ \A i, j \in 1..Len(data_frame') :
             i < j => Timestamp(data_frame'[i]) <= Timestamp(data_frame'[j])]_vars

\* C20 witness: the measures of the test arrived with the latest first and
\* timeout() returned them by increasing timestamp
C20_Witness ==
    /\ timeouts = 1
    /\ measures = << <<2, 2, 2>>, <<0, 2, 0>>, <<1, 1, 1>> >>
    /\ data_frame = << <<0, 2, 0>>, <<1, 1, 1>>, <<2, 2, 2>> >>

\* C26: whenever a message is taken from the channel, the proxy is not
\* poisoned, the channel holds a message, and the waiter that takes it, the
\* one that completes in that step, has the uid of the cursor, which is the
\* least uid of the pending waiters; a poisoned proxy reads nothing.
C26_OnlyOldestReads ==
    /\ [][host_recv' # host_recv =>
            /\ exception = None
            /\ HostPoll
            /\ completed' = Append(completed, active_request_uid)
            /\ \A t \in TaskIds :
                 IsPending(t) => tasks[t].uid >= active_request_uid]_vars
    /\ [][exception # None => host_recv' = host_recv]_vars

\* C26 witness: three waiters pending together with two messages on the
\* channel; the oldest has taken the first, the others have taken nothing
C26_Witness ==
    /\ burst = 3
    /\ Len(pipe_to_host) = 2
    /\ host_recv = 1
    /\ completed = <<0>>
    /\ IsPending(2) /\ IsPending(3)

\* ---- the receiver's trace
Greatest(S) == CHOOSE i \in S : \A j \in S : j <= i
\* a header byte that was read and not given to the codec
NotFedHeader(i) ==
    i \in 1..Len(rx_log) /\ i \notin fed /\ rx_log[i] = HeaderByte
\* the last position before k that was not given to the codec (0: none)
LastNotFed(k) == Greatest({0} \cup {i \in 1..(k - 1) : i \notin fed})
\* how many header bytes, none given to the codec, end the trace
TrailingHeader ==
    Len(rx_log)
    - Greatest({0} \cup {i \in 1..Len(rx_log) : ~NotFedHeader(i)})
\* position k ends a packet: the codec's packets are a key and an argument,
\* so every second byte of an unbroken run of codec bytes resolves one
Resolved(k) == k \in fed /\ (k - LastNotFed(k)) % 2 = 0

\* C27: the header countdown starts at the header length, goes down by one
\* on a header byte and back to the header length on any other byte, at
\* the start of the stream and after a frame alike; the codec gets a byte
\* only when the countdown is 0, so each run of codec bytes comes right
\* after 4 header bytes that the codec did not get.
C27_HeaderMatching ==
    /\ fed \subseteq 1..Len(rx_log)
    /\ \A k \in fed :
         LET h == LastNotFed(k) IN
         /\ h >= Len(HEADER)
         /\ \A i \in (h - Len(HEADER) + 1)..h : NotFedHeader(i)
    /\ \A k \in Len(HEADER)..(Len(rx_log) - 1) :
         (\A i \in (k - Len(HEADER) + 1)..k : NotFedHeader(i)) => k + 1 \in fed
    /\ Len(rx_log) \notin fed => header_sentinel = Len(HEADER) - TrailingHeader
    /\ header_sentinel = 0 /\ rx_pc = "poll" /\ Len(rx_log) \notin fed
         => \A i \in (Len(rx_log) - Len(HEADER) + 1)..Len(rx_log) : NotFedHeader(i)

\* a stray byte, a header begun and broken off, then a frame, and the
\* countdown back at the header length after it
C27_Witness ==
    /\ \E k \in fed : \E i \in 1..(k - 1) : \E j \in 1..(i - 1) :
         /\ NotFedHeader(j)
         /\ i \notin fed /\ rx_log[i] # HeaderByte
         /\ Resolved(k)
    /\ header_sentinel = Len(HEADER)
    /\ Len(rx_log) \in fed

\* C28: once a packet resolved, the countdown is back at the header length
\* before the next byte is looked at, whether the packet left a response in
\* the codec or not, and the bytes that follow stay out of the codec until
\* a whole header went by; a byte that leaves the packet loading leaves the
\* countdown at 0, so the next byte goes to the codec.
C28_ResetAfterResolved ==
    /\ \A k \in fed :
         Resolved(k) =>
             \A j \in (k + 1)..(k + Len(HEADER)) : j \notin fed
    /\ \A k \in fed :
         ~Resolved(k) /\ k < Len(rx_log) => k + 1 \in fed
    /\ Resolved(Len(rx_log)) =>
         header_sentinel = Len(HEADER) /\ dispatcher = <<>> /\ ~loaded
    /\ Len(rx_log) \in fed /\ ~Resolved(Len(rx_log)) /\ ~dropped =>
         header_sentinel = 0 /\ dispatcher # <<>>
    /\ warnings =
         Cardinality({k \in fed : Resolved(k) /\ rx_log[k - 1] = EchoKey})

\* a packet that left a response and one that left none have resolved,
\* bytes came after each, and a new header let the second in
C28_Witness ==
    \E k \in fed : \E l \in fed :
        /\ Resolved(k) /\ rx_log[k - 1] = EchoKey
        /\ Resolved(l) /\ rx_log[l - 1] = ReplyKey
        /\ k + 1 \in 1..Len(rx_log) /\ l + 1 \in 1..Len(rx_log)
        /\ warnings = 1

\* C29: each payload the transmitter takes from the channel is the next one
\* in channel order and gives one write of HEADER followed by that payload,
\* nothing more: as long as the transmitter has not failed, the frames
\* written are exactly the payloads taken, in order, once each; a write that
\* raises ends the transmitter with that one payload taken and not written.
C29_OneFramePerPayload ==
    /\ [][remote_recv' # remote_recv =>
            /\ remote_recv' = remote_recv + 1
            /\ tx_pc = "poll" /\ RemotePoll
            /\ \/ serial_out' = Append(serial_out,
                                       HEADER \o pipe_to_remote[remote_recv'])
               \/ tx_pc' = "failed" /\ serial_out' = serial_out]_vars
    /\ [][serial_out' # serial_out => remote_recv' # remote_recv]_vars
    /\ [](/\ Len(serial_out) =
               IF tx_pc = "failed" THEN remote_recv - 1 ELSE remote_recv
          /\ \A i \in 1..Len(serial_out) :
               serial_out[i] = HEADER \o pipe_to_remote[i])

\* two payloads, not the same, were taken and written while a third waits
C29_Witness ==
    /\ Len(pipe_to_remote) = 3
    /\ remote_recv = 2
    /\ Len(serial_out) = 2
    /\ serial_out[1] # serial_out[2]
    /\ tx_pc = "wait"

\* C30: nothing but a resolved reply packet or a fault ends the wait of the
\* transmitter, and it writes nothing while it waits; without a fault a call
\* resolves only once as many reply packets have resolved as its id plus
\* one.  So while the reply to the frame in flight does not come, the call
\* in flight and the later ones stay pending and later payloads stay on the
\* channel, whatever else the receiver reads.
C30_NoRequestTimeout ==
    /\ [][tx_pc = "wait" /\ tx_pc' # "wait" =>
            \/ /\ reply_tasks # <<>>
               /\ reply_tasks' = Tail(reply_tasks)
               /\ pipe_to_host' = Append(pipe_to_host,
                                         BytesMsg(Head(reply_tasks)))
            \/ start_pc' = "returned" /\ FailureSent']_vars
    /\ [][tx_pc = "wait" =>
            serial_out' = serial_out /\ remote_recv' = remote_recv]_vars
    /\ [](~FailureSent =>
            \A t \in TaskIds :
                ~IsPending(t) =>
                    Returned(t) /\ tasks[t].uid < Len(WireReplies))
    /\ [](tx_pc = "wait" /\ Len(WireReplies) < remote_recv /\ ~FailureSent =>
            /\ Len(serial_out) = remote_recv
            /\ \A t \in TaskIds :
                 tasks[t].uid >= remote_recv - 1 => IsPending(t))

\* the first frame is in flight and unanswered, the receiver has read a
\* packet of another key meanwhile, and all three calls are still pending
C30_Witness ==
    /\ tx_pc = "wait"
    /\ Len(serial_out) = 1
    /\ Len(pipe_to_remote) = 3
    /\ WireReplies = <<>>
    /\ rx_log # <<>> /\ serial_in = <<>>
    /\ \A t \in 1..3 : IsPending(t)

\* ---- the shell
Logged(msg) == \E i \in 1..Len(ostream) : ostream[i] = msg
\* the step is the done callback of the task of command k
Finalizes(k) == ~commands[k].finalized /\ commands'[k].finalized
\* the thread waits for the blocking command it has scheduled
WaitsFor(k) ==
    thread_pc = "wait" /\ create_task_result = FALSE /\ k = Len(commands)

C22_ShellErrorKeepsRunning ==
    /\ [][\A k \in CommandIds :
            Finalizes(k) =>
                IF commands[k].state = "Exception"
                THEN ~continue'
                ELSE continue' = continue]_vars
    /\ [][thread_pc = "create_task" /\ thread_pc' # "create_task" =>
            IF continue
            THEN /\ create_task_result' = FALSE
                 /\ Len(commands') = Len(commands) + 1
                 /\ ready' = Append(ready, CreateHandle(Len(commands')))
            ELSE /\ create_task_result' = TRUE
                 /\ commands' = commands
                 /\ ready' = ready]_vars
    /\ [](run_pc # "idle" =>
            (continue <=>
                ~\E k \in CommandIds :
                    commands[k].finalized /\ commands[k].state = "Exception"))

\* a task ended with a ShellError, the next coroutine was scheduled all the
\* same, it ended with an exception, and the create_task that followed
\* returned True
C22_Witness ==
    /\ Len(commands) = 2
    /\ commands[1].state = "ShellError" /\ commands[1].finalized
    /\ commands[2].state = "Exception" /\ commands[2].finalized
    /\ lines_read = 3
    /\ create_task_result = TRUE
    /\ ready = <<RunHandle>>

\* C23 as stated: while the thread waits for a blocking command, the event
\* it waits for is clear as long as the command runs and is set once the
\* command is done, however it ended.
C23_Original ==
    \A k \in CommandIds :
        WaitsFor(k) =>
            /\ ~IsDone(k) => ~done_event
            /\ IsDone(k) => done_event

\* C23, what the code does: the event is set when the command returns and
\* only then; the thread leaves the wait only with the event set.
C23_ReleasedOnReturnOnly ==
    /\ [](\A k \in CommandIds :
            WaitsFor(k) => (done_event <=> commands[k].state = "finished"))
    /\ [][thread_pc = "wait" /\ thread_pc' # "wait" => done_event]_vars

\* a blocking command has raised, its done callback has run, and the
\* thread still waits for an event nobody will set
C23_Witness ==
    \E k \in CommandIds :
        /\ WaitsFor(k)
        /\ commands[k].state \in {"ShellError", "Exception"}
        /\ commands[k].finalized
        /\ ~done_event
        /\ ready = <<RunHandle>>

\* C24 as stated: once run has logged the exit message, every command the
\* thread has scheduled has started, a command without await has ended, and
\* no output of a command comes after the exit message.
C24_Original ==
    Logged(ExitMessage) =>
        /\ \A k \in CommandIds :
             /\ commands[k].started
             /\ commands[k].line \in {"increment", "big_alert", "error", "panic"}
                  => IsDone(k)
        /\ \A i, j \in 1..Len(ostream) :
             ostream[i] = ExitMessage /\ i < j => ostream[j] # Alert

\* C24, what the code does: run logs the exit message once the thread is
\* dead, whatever is still in the loop's queue; a command that has not
\* started by then is cancelled and never runs.
C24_ExitWhenThreadDead ==
    /\ [](Logged(ExitMessage) => thread_pc = "dead" /\ run_pc # "polling")
    /\ [](\A k \in CommandIds :
            commands[k].state = "cancelled" /\ ~commands[k].started
                => Logged(ExitMessage))

\* run has returned, and the "big_alert" read before the end of the input
\* never ran: its task was cancelled before its first step
C24_Witness ==
    /\ run_pc = "returned"
    /\ Len(commands) = 1
    /\ commands[1].line = "big_alert"
    /\ commands[1].state = "cancelled" /\ ~commands[1].started
    /\ ostream = <<ExitMessage>>

\* ---- the output stream
\* the call left the lock held when it returned
LeftHeld(c) == c.acquired /\ ~c.released

\* C25 as stated: a call of write made while the stream is not in a
\* context acquires the lock, unless the string is empty, and has given it
\* back when it returns exactly if the string ends with a newline or is
\* empty; a call made while the stream is in a context neither acquires nor
\* releases the lock.
C25_Original ==
    \A u \in Users :
        LET c == write_call[u] IN
        c.done =>
            IF c.ctx
            THEN ~c.acquired /\ ~c.released
            ELSE /\ c.msg # <<>> => c.acquired
                 /\ ~LeftHeld(c) <=> (NewlineTerminated(c.msg) \/ c.msg = <<>>)

\* the call reached self.__lock.release(), which released the lock or
\* raised because nobody held it
CalledRelease(c) == c.released \/ c.raised

\* C25, what the code does: an empty string touches nothing; any other
\* call acquires the lock exactly if it found the stream out of a context
\* when it began, and calls release exactly if the string ends with a
\* newline and it finds the stream out of a context when it ends.  The two
\* tests agree, and the claim holds, for a call during which no other user
\* entered or left a context.
C25_WriteLocking ==
    \A u \in Users :
        LET c == write_call[u] IN
        c.done =>
            /\ c.msg = <<>> => ~c.acquired /\ ~CalledRelease(c)
            /\ c.msg # <<>> =>
                 /\ c.acquired <=> ~c.ctx
                 /\ CalledRelease(c) <=> NewlineTerminated(c.msg) /\ ~c.ctx_end
            /\ c.ctx = c.ctx_end /\ ~c.raised =>
                 IF c.ctx
                 THEN ~c.acquired /\ ~c.released
                 ELSE ~LeftHeld(c) <=>
                         (NewlineTerminated(c.msg) \/ c.msg = <<>>)

\* a call that found the stream in a context has released the lock that
\* another call had taken after the context was left
C25_Witness ==
    \E u \in Users :
        /\ write_call[u].done
        /\ write_call[u].ctx /\ ~write_call[u].ctx_end
        /\ ~write_call[u].acquired /\ write_call[u].released
        /\ \E v \in Users \ {u} : LeftHeld(write_call[v]) /\ write_call[v].done
        /\ ~lock

\* the positions of the trace that end a packet of the host-reply key
ReplyEnds == {k \in fed : Resolved(k) /\ rx_log[k - 1] = ReplyKey}
\* the payloads of those packets, in the order they resolved
ResolvedReplies ==
    [i \in 1..Cardinality(ReplyEnds) |->
        rx_log[CHOOSE k \in ReplyEnds :
                  Cardinality({j \in ReplyEnds : j <= k}) = i]]

\* C31: the success messages on the channel, followed by the payloads of
\* the reply callbacks still scheduled, are the payloads of the resolved
\* host-reply packets, one each and in their order, so that packets of other
\* keys add nothing; a success message is put on the channel only by the
\* oldest scheduled callback, with its payload, in the step that releases
\* the transmitter if it waits; the transmitter was never released more
\* often than success messages were sent.
C31_OneMessagePerReplyPacket ==
    /\ [](WireReplies = ResolvedReplies)
    /\ [][Len(SentReplies') > Len(SentReplies) =>
            /\ reply_tasks # <<>>
            /\ reply_tasks' = Tail(reply_tasks)
            /\ pipe_to_host' = Append(pipe_to_host,
                                      BytesMsg(Head(reply_tasks)))
            /\ IF tx_pc = "wait"
               THEN tx_pc' = "poll" /\ wakeups' = wakeups + 1
               ELSE UNCHANGED <<tx_pc, wakeups>>]_vars
    /\ [][tx_pc = "wait" /\ tx_pc' = "poll" =>
            Len(SentReplies') = Len(SentReplies) + 1]_vars
    /\ [](wakeups <= Len(SentReplies))

\* two reply packets and a packet of another key resolved; the two replies
\* were sent on and each released the transmitter
C31_Witness ==
    /\ \E k \in fed : Resolved(k) /\ rx_log[k - 1] = PushKey
    /\ Cardinality(ReplyEnds) = 2
    /\ Len(SentReplies) = 2
    /\ wakeups = 2
    /\ SentReplies[1].val # SentReplies[2].val

\* C32: a step in which the proxy receives a success message is the step of
\* the pending call whose id is the cursor: that call returns the message's
\* payload, the cursor goes up by one, and every other call, the next id and
\* the poison flag stay as they are.
C32_SuccessConsumedByOne ==
    [][(host_recv' # host_recv /\ ~IsException(pipe_to_host[host_recv + 1])) =>
         /\ host_recv' = host_recv + 1
         /\ active_request_uid' = active_request_uid + 1
         /\ UNCHANGED <<next_request_uid, exception>>
         /\ exception = None
         /\ \E t \in TaskIds :
              /\ IsPending(t)
              /\ tasks[t].uid = active_request_uid
              /\ tasks' = [tasks EXCEPT
                             ![t].state = "returned",
                             ![t].result = pipe_to_host[host_recv + 1].val]]_vars

\* three calls were pending together; the first has consumed a success
\* message, the other two still wait
C32_Witness ==
    /\ Len(tasks) = 3 /\ burst = 3
    /\ Returned(1) /\ IsPending(2) /\ IsPending(3)
    /\ host_recv = 1
    /\ active_request_uid = 1

\* the step of run that finds the thread dead and cancels
RunCancels == run_pc = "polling" /\ run_pc' = "exiting"

\* C33 as stated: the step of run that follows the end of the command loop
\* cancels every command that has not finished, and no task that has
\* finished is among the tasks it cancels; when run returns, every command
\* it cancelled has been given the cancellation and is done.
C33_Original ==
    /\ [][RunCancels =>
            /\ \A k \in CommandIds : ~IsDone(k) => commands'[k].must_cancel
            /\ \A k \in running_tasks : ~IsDone(k)]_vars
    /\ [](run_pc = "returned" =>
            \A k \in CommandIds : commands[k].must_cancel => IsDone(k))

\* C33, the part the code keeps: run cancels the tasks of __running_tasks
\* that are not done, each of them is done when run returns, and a task
\* whose done callback has run is not in __running_tasks.
C33_CancelsRunningTasks ==
    /\ [][RunCancels =>
            \A k \in running_tasks : ~IsDone(k) => commands'[k].must_cancel]_vars
    /\ [](run_pc = "returned" =>
            \A k \in CommandIds : commands[k].must_cancel => IsDone(k))
    /\ [](\A k \in CommandIds : commands[k].finalized => k \notin running_tasks)

\* C33 witness: run has returned; it cancelled a task that had started,
\* which is done, and a command whose task did not exist yet is not
\* cancelled and not done
C33_Witness ==
    /\ run_pc = "returned"
    /\ \E k \in CommandIds :
         commands[k].must_cancel /\ commands[k].started /\ IsDone(k)
    /\ \E k \in CommandIds : ~commands[k].must_cancel /\ ~IsDone(k)

\* C34: the cursor never is ahead of the next id, and it counts the waiters
\* that have left their polling loop, those that returned and those that
\* raised alike.
C34_CursorCountsLeavers ==
    /\ active_request_uid <= next_request_uid
    /\ active_request_uid =
         Cardinality({t \in TaskIds : Returned(t)})
         + Cardinality({t \in TaskIds : Raised(t)})
    /\ active_request_uid = Len(completed)

\* C34 witness: a call returned a payload, the next received the failure
\* message and a third raised the stored fault without reading the channel
C34_Witness ==
    /\ Returned(1) /\ Raised(2) /\ Raised(3)
    /\ host_recv = 2
    /\ active_request_uid = 3
    /\ next_request_uid = 3

\* the failure messages on the channel, in the order they were sent
SentFailures == SelectSeq(pipe_to_host, IsException)

FailureIsLast ==
    \A i, j \in 1..Len(pipe_to_host) :
        (i < j /\ IsException(pipe_to_host[i])) => IsException(pipe_to_host[j])

\* C36 as stated: on the channel to the host no success message follows a
\* failure message.
C36_Original == FailureIsLast

\* C36, the part the code keeps: when the transmitter has not failed, the
\* receiver schedules no callback after the fault and the callbacks
\* scheduled before it have sent when __start sends the fault, so no
\* success message follows the failure message; in every case __start sends
\* only when the callbacks scheduled before its wake-up have run, and the
\* proxy receives nothing that was sent after a failure message.
C36_FailureLastUnlessTxFails ==
    /\ [](tx_exception = None => FailureIsLast)
    /\ [][~FailureSent /\ FailureSent' => ahead = 0]_vars
    /\ [](\A i \in 1..(host_recv - 1) : ~IsException(pipe_to_host[i]))

\* C36 witness: the write of the transmitter failed, the receiver resolved
\* a reply packet before __start was resumed, and the callback sent its
\* payload after the failure message
C36_Witness ==
    /\ tx_pc = "failed"
    /\ Len(pipe_to_host) = 2
    /\ IsException(pipe_to_host[1])
    /\ ~IsException(pipe_to_host[2])
    /\ rx_pc = "cancelled"

\* C37: the transmitter waits on the condition from the step that writes a
\* frame on, so with a device that sends one reply packet for each frame and
\* none besides, a frame whose reply has not been sent on finds the
\* transmitter waiting, and every reply callback that sends releases it:
\* there are as many releases as replies sent.
C37_NoLostWakeup ==
    /\ [][serial_out' # serial_out => tx_pc' \in {"wait", "failed"}]_vars
    /\ [](device = "faithful" =>
            /\ Len(serial_out) > Len(SentReplies) => tx_pc \in {"wait", "cancelled"}
            /\ wakeups = Len(SentReplies))
    /\ [][(device' = "faithful" /\ Len(SentReplies') > Len(SentReplies)) =>
            /\ tx_pc = "wait"
            /\ tx_pc' = "poll"
            /\ wakeups' = wakeups + 1]_vars

\* C37 witness: three frames were written and answered, and the three reply
\* callbacks each released the waiting transmitter
C37_Witness ==
    /\ device = "faithful"
    /\ Len(serial_out) = 3
    /\ Len(SentReplies) = 3
    /\ wakeups = 3
    /\ tx_pc = "poll"

\* C38 as stated: whatever the device sends, the worker has put at most as
\* many success messages on the channel as it has written frames.
C38_Original == Len(SentReplies) <= Len(serial_out)

\* C38, the part the code keeps: the worker sends one success message for
\* each reply packet it resolves, asked for or not, so the success messages
\* are bounded by what the device has sent and not by the frames written;
\* they stay within the frames written as long as the device sends one
\* reply packet for each frame and none besides, and the releases of the
\* transmitter stay within them in every case.
C38_RepliesBoundedByDevice ==
    /\ Len(SentReplies) <= device_answered + device_extra
    /\ device = "faithful" => Len(SentReplies) <= Len(serial_out)
    /\ wakeups <= Len(serial_out)
    /\ wakeups <= Len(SentReplies)

\* C38 witness: the device has sent a reply packet while nothing was
\* written; its payload is on the channel as a success message and a call
\* has returned it
C38_Witness ==
    /\ serial_out = <<>>
    /\ Len(SentReplies) = 1
    /\ Returned(1)
    /\ wakeups = 0

\* C39: once a failure message is on the channel the worker writes no frame
\* to the serial device and receives no payload, whatever new_request puts
\* on the channel afterwards: the transmitter has failed or is cancelled in
\* the step that sends the message.
C39_NoFrameAfterFailure ==
    [][FailureSent =>
         /\ serial_out' = serial_out
         /\ remote_recv' = remote_recv
         /\ tx_pc \in {"failed", "cancelled"}]_vars

\* C39 witness: the receiver failed before any call, its failure is on the
\* channel, new_request has put two payloads there since the start and the
\* worker has taken none of them and written nothing
C39_Witness ==
    /\ FailureSent
    /\ rx_pc = "failed"
    /\ tx_pc = "cancelled"
    /\ Len(pipe_to_remote) = 2
    /\ remote_recv = 0
    /\ serial_out = <<>>
    /\ \E t \in 1..Len(tasks) : Raised(t)
    /\ \E t \in 1..Len(tasks) : IsPending(t)

\* ---- the output stream as a context manager
\* this step is the call of write of user v giving its string to the
\* wrapped stream
Writes(v) == write_pc[v] = "write" /\ write_pc'[v] = "idle"
\* this step gives a string to the wrapped stream while user u is and stays
\* inside "with stream:", and the string is not u's
ForeignWrite(u, v) ==
    /\ v # u
    /\ in_with[u] /\ in_with'[u]
    /\ Writes(v)
    /\ written' # written

\* C40 as stated: while one user is inside the context no write of another
\* user reaches the wrapped stream.
C40_Original ==
    [][\A u \in Users : \A v \in Users : ~ForeignWrite(u, v)]_vars

\* C40, what the code keeps: the context itself is exclusive.  While a user
\* is inside it the lock is held and __in_context is True, no other user is
\* inside it, and a call of write that is waiting for the lock stays
\* waiting; the writes that get through are those that do not wait.
C40_ContextExclusive ==
    \A u \in Users :
        in_with[u] =>
            /\ lock
            /\ in_context
            /\ \A v \in Users \ {u} : ~in_with[v]
            /\ \A v \in Users : write_pc[v] = "acquire" => ~ENABLED WriteAcquire(v)

\* C40 witness: a user is inside the context and the last string the
\* wrapped stream was given came from the other user's call, made and
\* finished without the lock while the context was open
C40_Witness ==
    \E u \in Users : \E v \in Users \ {u} :
        /\ in_with[u]
        /\ ~in_with[v]
        /\ write_call[u] = NoCall
        /\ write_call[v].done /\ write_call[v].msg # <<>>
        /\ write_call[v].ctx /\ write_call[v].ctx_end
        /\ ~write_call[v].acquired
        /\ written = <<write_call[v].msg>>
        /\ lock
====
